---- MODULE Spec2Model ----
(***************************************************************************)
(* Request authentication pipeline of go-app: the canonical request        *)
(* signer (utils.GenerateSignature), the Signature middleware, the replay  *)
(* guard, the JWT session middleware and the gin middleware chain that      *)
(* main() assembles.                                                        *)
(*                                                                          *)
(* Strings are sequences of byte values, so that sort.Strings (byte-wise    *)
(* lexicographic order) and strings.Builder concatenation are computed the  *)
(* way the code computes them.  MD5 / HMAC are symbolic: a digest is the    *)
(* hashed text behind a marker byte, i.e. a collision-free hash.            *)
(*                                                                          *)
(* The specifications of the module:                                        *)
(*   Spec        one request through the middleware chain                   *)
(*   SpecSigner  a client signs a parameter map, the middleware verifies it *)
(*   SpecFresh   the replay guard over timestamps, clocks and windows       *)
(*   SpecReplay  one signed request submitted again and again               *)
(*   SpecToken   a session token issued, altered, aged and parsed           *)
(*   SpecAudit   the request logger: callers and the rotation goroutine     *)
(*   SpecLog     the application logger under concurrent goroutines         *)
(*   SpecUsers   Register and Login of the user service, concurrently       *)
(***************************************************************************)
EXTENDS Integers, Sequences, FiniteSets, TLC

----------------------------------------------------------------------------
(* Bounds of the model *)

\* width in bits of the model's int64 (scaled down from 64)
IntBits == 5
\* number of time.Duration units in one second (scaled down from 1e9)
TicksPerSecond == 2
\* largest value of time.Now().Unix() explored
MaxNow == 6
\* largest number of business parameters in a signed mapping
MaxParams == 2
\* largest number of business parameters handed to GenerateAPIParams
MaxApiParams == 0
\* largest freshness window explored, in seconds
MaxWindow == 3
\* how many times a client passes one map through GenerateAPIParams
MaxRounds == 2
\* how many times one signed request is submitted again
MaxResubmits == 2
\* number of midnights that pass
MaxDays == 2
\* number of requests whose audit record is logged concurrently
MaxCallers == 2
\* number of calls into the application logger
MaxCalls == 3

\* calls of the user service in one run
MaxUserCalls == 3

\* milliseconds the clock of generateUserID advances
MaxMs == 1

----------------------------------------------------------------------------
(* Byte strings *)

sSign       == <<115, 105, 103, 110>>
sAppKey     == <<97, 112, 112, 95, 107, 101, 121>>
sTimestamp  == <<116, 105, 109, 101, 115, 116, 97, 109, 112>>
sNonce      == <<110, 111, 110, 99, 101>>
sAppSecretEq == <<97, 112, 112, 95, 115, 101, 99, 114, 101, 116, 61>>
sEq         == <<61>>
sAmp        == <<38>>
sEmpty      == <<>>

\* s < t in Go's string order (byte-wise lexicographic, a proper prefix first)
RECURSIVE StrLess(_, _)
StrLess(s, t) ==
    IF t = <<>> THEN FALSE
    ELSE IF s = <<>> THEN TRUE
    ELSE IF Head(s) # Head(t) THEN Head(s) < Head(t)
    ELSE StrLess(Tail(s), Tail(t))

\* insert k into the ascending sequence ks
RECURSIVE InsertSorted(_, _)
InsertSorted(k, ks) ==
    IF ks = <<>> THEN <<k>>
    ELSE IF StrLess(Head(ks), k) THEN <<Head(ks)>> \o InsertSorted(k, Tail(ks))
    ELSE <<k>> \o ks

\* faulty variant: the keys stay in the order the map iteration produced them
SortStrings_Unsorted(ks) == ks

\* sort.Strings(keys)
RECURSIVE SortStrings(_)
SortStrings(ks) ==
    IF ks = <<>> THEN <<>>
    ELSE InsertSorted(Head(ks), SortStrings(Tail(ks)))

\* the orders in which `for k := range m` may visit the keys K of a Go map
RECURSIVE IterOrders(_)
IterOrders(K) ==
    IF K = {} THEN {<<>>}
    ELSE UNION { { <<k>> \o o : o \in IterOrders(K \ {k}) } : k \in K }

\* md5.New(); hash.Write(s); hex.EncodeToString(hash.Sum(nil)), symbolic
Md5Hex(s) == <<0>> \o s

----------------------------------------------------------------------------
(* Decimal conversion *)

Digit(d) == <<48 + d>>

\* strconv.FormatInt(n, 10)
RECURSIVE FormatNat(_)
FormatNat(n) == IF n < 10 THEN Digit(n) ELSE FormatNat(n \div 10) \o Digit(n % 10)

FormatInt(n) == IF n < 0 THEN <<45>> \o FormatNat(0 - n) ELSE FormatNat(n)

\* time.Now().Format("20060102150405.000") with the clock counted in seconds
GenerateNonce(now) == FormatNat(now) \o <<46, 48, 48, 48>>

----------------------------------------------------------------------------
(* Canonical signer: utils.GenerateSignature *)

\* faulty variant: writes the key where the value belongs
RECURSIVE BuildSignStr_NoValue(_, _)
BuildSignStr_NoValue(keys, params) ==
    IF keys = <<>> THEN <<>>
    ELSE Head(keys) \o sEq \o Head(keys) \o sAmp
         \o BuildSignStr_NoValue(Tail(keys), params)

\* the loop `for _, k := range keys { k "=" params[k] "&" }`
RECURSIVE BuildSignStr(_, _)
BuildSignStr(keys, params) ==
    IF keys = <<>> THEN <<>>
    ELSE Head(keys) \o sEq \o params[Head(keys)] \o sAmp
         \o BuildSignStr(Tail(keys), params)

\* the string that is hashed: "k1=v1&...&kn=vn&app_secret=<secret>"
SignStr(params, iter, appSecret) ==
    BuildSignStr(SortStrings(iter), params) \o sAppSecretEq \o appSecret

\* GenerateSignature(params, appSecret); iter is the order in which the
\* `range params` loop happened to visit the keys
GenerateSignature(params, iter, appSecret) == Md5Hex(SignStr(params, iter, appSecret))

\* a Go map with one more entry (m[k] = v)
MapSet(m, k, v) == [x \in DOMAIN m \cup {k} |-> IF x = k THEN v ELSE m[x]]

\* a Go map without the key k
MapDel(m, k) == [x \in DOMAIN m \ {k} |-> m[x]]

\* the three public parameters GenerateAPIParams stores before signing
WithPublicParams(appKey, now, params) ==
    MapSet(MapSet(MapSet(params, sAppKey, appKey), sTimestamp, FormatInt(now)),
           sNonce, GenerateNonce(now))

\* GenerateAPIParams(appKey, appSecret, params): the map it returns
GenerateAPIParams(appKey, appSecret, now, params, iter) ==
    LET p == WithPublicParams(appKey, now, params)
    IN  MapSet(p, sSign, GenerateSignature(p, iter, appSecret))

----------------------------------------------------------------------------
(* Signature middleware: recomputation of the digest (signature.go 70-114) *)

\* merge of c.Request.URL.Query() and c.Request.PostForm, `sign` excluded,
\* first value of each key, form entries overwriting query entries
AllParams(queryParams, formParams) ==
    [k \in (DOMAIN queryParams \cup DOMAIN formParams) \ {sSign} |->
        IF k \in DOMAIN formParams THEN formParams[k][1] ELSE queryParams[k][1]]

\* faulty variant: the secret term is left out of the hashed string
CalculatedSign_NoSecret(queryParams, formParams, iter, appSecret) ==
    LET allParams == AllParams(queryParams, formParams)
    IN  Md5Hex(BuildSignStr(SortStrings(iter), allParams))

\* calculatedSign
CalculatedSign(queryParams, formParams, iter, appSecret) ==
    LET allParams == AllParams(queryParams, formParams)
    IN  Md5Hex(BuildSignStr(SortStrings(iter), allParams) \o sAppSecretEq \o appSecret)

\* form:"sign" of ShouldBindQuery: first value of the query key, "" if absent
QueryGet(queryParams, k) ==
    IF k \in DOMAIN queryParams THEN queryParams[k][1] ELSE sEmpty

\* calculatedSign == params.Sign
SignMatches(queryParams, formParams, iter, appSecret) ==
    CalculatedSign(queryParams, formParams, iter, appSecret) = QueryGet(queryParams, sSign)

----------------------------------------------------------------------------
(* Replay guard: the freshness test of signature.go 63-68 *)

Pow2(n) == 2 ^ n
MinInt64 == 0 - Pow2(IntBits - 1)
MaxInt64 == Pow2(IntBits - 1) - 1
Int64 == MinInt64 .. MaxInt64

\* two's-complement result of an int64 operation whose exact value is x
Wrap64(x) == ((x - MinInt64) % Pow2(IntBits)) + MinInt64

\* Go's integer division, truncating toward zero
TruncDiv(a, b) == IF a >= 0 THEN a \div b ELSE 0 - ((0 - a) \div b)

\* int64(config.Expire.Seconds())
WindowSeconds(expire) == TruncDiv(expire, TicksPerSecond)

\* faulty variant: a request exactly as old as the window is turned away
Expired_AtWindow(now, timestamp, expire) ==
    Wrap64(now - timestamp) >= WindowSeconds(expire)

\* now-params.Timestamp > int64(config.Expire.Seconds())
Expired(now, timestamp, expire) ==
    Wrap64(now - timestamp) > WindowSeconds(expire)

----------------------------------------------------------------------------
(* Parsing helpers *)

\* position of the first byte c in s, 0 if there is none
IndexByte(s, c) ==
    IF \E i \in 1 .. Len(s) : s[i] = c
    THEN CHOOSE i \in 1 .. Len(s) : s[i] = c /\ \A j \in 1 .. (i - 1) : s[j] # c
    ELSE 0

\* strings.SplitN(s, sep, 2) for a one-byte separator
SplitN2(s, c) ==
    LET i == IndexByte(s, c)
    IN  IF i = 0 THEN <<s>> ELSE <<SubSeq(s, 1, i - 1), SubSeq(s, i + 1, Len(s))>>

IsDigits(s) == s # <<>> /\ \A i \in 1 .. Len(s) : s[i] \in 48 .. 57

RECURSIVE NatOf(_)
NatOf(s) == IF s = <<>> THEN 0 ELSE 10 * NatOf(SubSeq(s, 1, Len(s) - 1)) + (s[Len(s)] - 48)

\* strconv.ParseInt(s, 10, 64): ok is FALSE on a syntax or range error
ParseInt(s) ==
    LET signed == s # <<>> /\ s[1] \in {43, 45}
        body   == IF signed THEN Tail(s) ELSE s
        n      == IF s # <<>> /\ s[1] = 45 THEN 0 - NatOf(body) ELSE NatOf(body)
    \* (no leading zeros in the inputs explored: more digits than bits is out of range)
    IN  IF IsDigits(body) /\ Len(body) <= IntBits /\ n \in Int64
        THEN [ok |-> TRUE, val |-> n]
        ELSE [ok |-> FALSE, val |-> 0]

----------------------------------------------------------------------------
(* Session tokens: GenerateToken / ParseToken of the JWT middleware.        *)
(* The compact serialization is "<claims>.<tag>", the claims being          *)
(* "<user_id>,<exp>,<iat>" in decimal and the tag a symbolic HS256.          *)

sBearer == <<66, 101, 97, 114, 101, 114>>
sSpace  == <<32>>
sDot    == <<46>>
sComma  == <<44>>

\* HMAC-SHA256 of msg under secret, symbolic
HS256(secret, msg) == <<1>> \o secret \o <<1>> \o msg

ClaimsString(userID, exp, iat) ==
    FormatNat(userID) \o sComma \o FormatInt(exp) \o sComma \o FormatInt(iat)

\* token.SignedString([]byte(secret))
SignedString(userID, exp, iat, secret) ==
    LET c == ClaimsString(userID, exp, iat)
    IN  c \o sDot \o HS256(secret, c)

\* jwt.NewNumericDate(t): the instant t (in duration units) truncated to
\* whole seconds (TLA+'s \div rounds down, as Time.Truncate does)
NewNumericDate(t) == t \div TicksPerSecond

\* faulty variant: ExpiresAt taken from time.Now() without Add(expire)
GenerateToken_NoTtl(userID, secret, expire, t) ==
    SignedString(userID, NewNumericDate(t), NewNumericDate(t), secret)

\* GenerateToken(userID, secret, expire) called at the instant t
GenerateToken(userID, secret, expire, t) ==
    SignedString(userID, NewNumericDate(t + expire), NewNumericDate(t), secret)

\* faulty variant: a token is still accepted at the instant it expires
ParseToken_AtExpiry(tokenString, secret, t) ==
    LET parts  == SplitN2(tokenString, 46)
        fields == IF Len(parts) = 2 THEN SplitN2(parts[1], 44) ELSE <<>>
        rest   == IF Len(fields) = 2 THEN SplitN2(fields[2], 44) ELSE <<>>
        uid    == IF Len(fields) = 2 THEN ParseInt(fields[1]) ELSE [ok |-> FALSE, val |-> 0]
        exp    == IF Len(rest) = 2 THEN ParseInt(rest[1]) ELSE [ok |-> FALSE, val |-> 0]
        iat    == IF Len(rest) = 2 THEN ParseInt(rest[2]) ELSE [ok |-> FALSE, val |-> 0]
    IN  IF ~(uid.ok /\ exp.ok /\ iat.ok /\ uid.val >= 0)
        THEN [err |-> "malformed", UserID |-> 0]
        ELSE IF parts[2] # HS256(secret, parts[1])
        THEN [err |-> "signature", UserID |-> 0]
        ELSE IF ~(t <= exp.val * TicksPerSecond)
        THEN [err |-> "expired", UserID |-> 0]
        ELSE [err |-> "", UserID |-> uid.val]

\* ParseToken(tokenString, secret) evaluated at the instant t: err is "" on
\* success, else "malformed", "signature" or "expired" (checked in that
\* order by jwt.ParseWithClaims); a token is valid while t is before exp
ParseToken(tokenString, secret, t) ==
    LET parts  == SplitN2(tokenString, 46)
        fields == IF Len(parts) = 2 THEN SplitN2(parts[1], 44) ELSE <<>>
        rest   == IF Len(fields) = 2 THEN SplitN2(fields[2], 44) ELSE <<>>
        uid    == IF Len(fields) = 2 THEN ParseInt(fields[1]) ELSE [ok |-> FALSE, val |-> 0]
        exp    == IF Len(rest) = 2 THEN ParseInt(rest[1]) ELSE [ok |-> FALSE, val |-> 0]
        iat    == IF Len(rest) = 2 THEN ParseInt(rest[2]) ELSE [ok |-> FALSE, val |-> 0]
    IN  IF ~(uid.ok /\ exp.ok /\ iat.ok /\ uid.val >= 0)
        THEN [err |-> "malformed", UserID |-> 0]
        ELSE IF parts[2] # HS256(secret, parts[1])
        THEN [err |-> "signature", UserID |-> 0]
        ELSE IF ~(t < exp.val * TicksPerSecond)
        THEN [err |-> "expired", UserID |-> 0]
        ELSE [err |-> "", UserID |-> uid.val]

----------------------------------------------------------------------------
(* State *)

VARIABLES
    now,          \* time.Now().Unix() of the server clock
    \* a client signing a parameter map and the middleware verifying it
    sgPhase,      \* "idle", "input", "signed", "sent", "verified"
    sgParams,     \* the client's params map (GenerateAPIParams writes into it)
    sgSecret,     \* appSecret shared by client and server
    sgSigned,     \* the mapping the last GenerateSignature call hashed
    sgDigest,     \* the signature that call returned
    sgSent,       \* the mapping the request is built from
    sgTampered,   \* a value of sgSent was changed after signing
    sgRounds,     \* GenerateAPIParams calls on sgParams so far
    sgQuery,      \* c.Request.URL.Query() of the request
    sgForm,       \* c.Request.PostForm of the request
    sgResult      \* "none", "ok", "bad": outcome of calculatedSign == params.Sign

VARIABLES
    \* one evaluation of the replay guard
    frPhase,      \* "idle", "input", "checked"
    frTimestamp,  \* params.Timestamp
    frExpire,     \* config.Expire, in duration units
    frExpired     \* the guard rejected the request as expired

frVars == <<frPhase, frTimestamp, frExpire, frExpired>>

VARIABLES
    \* one request travelling through the gin middleware chain
    ppPc,         \* the middleware or handler that runs next
    ppChain,      \* who assembled the engine: "main" or "SetupMiddlewares"
    rq,           \* the request: route group, method, headers, query, form
    ppStatus,     \* status of the response written so far, 0 if none
    ppMessage,    \* which rejection wrote the response, "" if none
    ppHandled,    \* the business handler (controller) was invoked
    ppUserID,     \* c.Get("userID"), 0 if unset
    ppAudits,     \* utils.LogRequest goroutines started for the request
    ppMode,       \* gin.Mode()
    ppErrors,     \* c.Errors: the types of the errors attached with c.Error
    ppPanic,      \* the panic unwinding the chain, NoPanic if none
    ppRecovered,  \* what recover() returned in ErrorHandler, NoPanic if nothing
    ppStack,      \* strings.Split(debug.Stack(), "\n") at the recovery
    ppBody,       \* the ErrorResponse written as the response body
    ppSyncIO      \* log writes performed by the task serving the request

ppVars == <<ppPc, ppChain, rq, ppStatus, ppMessage, ppHandled, ppUserID, ppAudits,
            ppMode, ppErrors, ppPanic, ppRecovered, ppStack, ppBody, ppSyncIO>>

VARIABLES
    \* one signed request submitted again and again (signature.go 46-121)
    rpPhase,      \* "idle", "arrived", "verified"
    rpReq,        \* the request, as rq
    rpTs,         \* the timestamp the client signed
    rpOut,        \* what the checks of signature.go 37-120 did with it
    rpMw,         \* what the middleware as written did with it
    rpCount       \* verifications of this request so far

rpVars == <<rpPhase, rpReq, rpTs, rpOut, rpMw, rpCount>>

VARIABLES
    \* one session token issued and parsed (part_000 1270-1312)
    tkPhase,      \* "idle", "input", "issued", "parsed"
    tkNow,        \* time.Now() as an instant, in duration units
    tkUserID,     \* userID handed to GenerateToken
    tkSecret,     \* secret handed to GenerateToken
    tkExpire,     \* expire handed to GenerateToken
    tkIssuedAt,   \* the instant GenerateToken ran
    tkToken,      \* the token string presented to ParseToken
    tkAltered,    \* a byte of the integrity tag was changed on the way
    tkParseSecret,\* secret handed to ParseToken
    tkResult      \* what ParseToken returned

tkVars == <<tkPhase, tkNow, tkUserID, tkSecret, tkExpire, tkIssuedAt, tkToken,
            tkAltered, tkParseSecret, tkResult>>

VARIABLES
    \* the request logger (utils/request_logger.go) under concurrent callers
    arMain,       \* main: "start", then "serving"
    arRot,        \* the rotation goroutine: "off", "updateWriter", "swap", "plan", "sleep"
    arPc,         \* per caller: where its LogRequest goroutine stands
    arFs,         \* the file system: "ok", "nodir" (MkdirAll fails), "nowrite"
    arArg,        \* config handed to InitRequestLogger by main
    arConfig,     \* requestLogger.config
    arDir,        \* the directory the init body created and reported
    arOnceDone,   \* reqLogOnce has run its function
    arLogger,     \* requestLogger: "nil" or "set"
    arWriter,     \* requestLogger.writer: NoWriter or the file it appends to
    arMutex,      \* the goroutine holding requestLogger.mutex, 0 if free
    arDay,        \* the local calendar day of time.Now()
    arWake,       \* the day whose 00:00 the rotation goroutine sleeps until
    arEmitDay,    \* per caller: the day of reqLog.Time
    arJsonOk,     \* per caller: json.Marshal succeeded
    arLines,      \* the lines appended so far, as <<caller, file>>, in order
    arCrashed     \* a goroutine died of a nil dereference

arVars == <<arMain, arRot, arPc, arFs, arArg, arConfig, arDir, arOnceDone, arLogger, arWriter,
            arMutex, arDay, arWake, arEmitDay, arJsonOk, arLines, arCrashed>>

VARIABLES
    \* the application logger (utils/logger.go) under concurrent callers
    lgPc,         \* position of each goroutine
    lgOp,         \* the call each goroutine is in
    lgFs,         \* the file system: "ok" or "nodir" (MkdirAll fails)
    lgOnce,       \* once: "fresh", "running", "done"
    lgLogger,     \* logger: NilLogger or the zap logger built by the init body
    lgInits,      \* every run of the init body: who ran it, with what, when
    lgDay,        \* the local calendar day of time.Now()
    lgLines,      \* the lines written to the log files so far, in order
    lgCalls,      \* calls started so far
    lgPanics,     \* calls that ended in a panic
    lgConsole,    \* the records mirrored to stdout and stderr
    lgRecords,    \* records handed to the zap logger so far
    lgHalted      \* the process has ended (unrecovered panic, or os.Exit)

lgVars == <<lgPc, lgOp, lgFs, lgOnce, lgLogger, lgInits, lgDay, lgLines, lgCalls, lgPanics,
            lgConsole, lgRecords, lgHalted>>

VARIABLES
    \* the user service (service/user_service.go) over the users collection
    usPc,         \* where each goroutine stands in its call
    usOp,         \* the call each goroutine is in or has finished
    usReq,        \* the request of that call
    usOut,        \* what the call returned
    usStore,      \* the documents of the users collection, in insertion order
    usIndexes,    \* the collection has the unique indexes on username and email
    usMs,         \* time.Now() in milliseconds
    usCalls       \* calls started so far

usVars == <<usPc, usOp, usReq, usOut, usStore, usIndexes, usMs, usCalls>>

sgVars == <<sgPhase, sgParams, sgSecret, sgSigned, sgDigest, sgSent, sgTampered,
            sgRounds, sgQuery, sgForm, sgResult>>

----------------------------------------------------------------------------
(* Inputs of the signer *)

ParamKeys   == {<<97>>, <<98>>, sSign}
ParamValues == {<<49>>, <<49, 38, 98, 61, 50>>}
Secrets     == {<<115, 51>>, <<116>>}
ClientAppKey == <<100>>
PublicKeys  == {sAppKey, sTimestamp, sNonce}

ParamMaps ==
    UNION { [K -> ParamValues] : K \in {K \in SUBSET ParamKeys : Cardinality(K) <= MaxParams} }

\* url.Values holding one value per key of the map m
Values1(m) == [k \in DOMAIN m |-> <<m[k]>>]

SgIdle ==
    /\ sgPhase = "idle" /\ sgParams = <<>> /\ sgSecret = sEmpty /\ sgSigned = <<>>
    /\ sgDigest = sEmpty /\ sgSent = <<>> /\ sgTampered = FALSE /\ sgRounds = 0
    /\ sgQuery = <<>> /\ sgForm = <<>> /\ sgResult = "none"

SgInit ==
    /\ sgPhase = "input"
    /\ sgParams \in ParamMaps
    /\ sgSecret \in Secrets
    /\ sgSigned = <<>> /\ sgDigest = sEmpty /\ sgSent = <<>>
    /\ sgTampered = FALSE /\ sgRounds = 0
    /\ sgQuery = <<>> /\ sgForm = <<>> /\ sgResult = "none"

----------------------------------------------------------------------------
(* Operations of the signer *)

\* the client calls utils.GenerateSignature(params, appSecret)
SgGenerateSignature ==
    /\ sgPhase = "input"
    /\ \E iter \in IterOrders(DOMAIN sgParams) :
          sgDigest' = GenerateSignature(sgParams, iter, sgSecret)
    /\ sgSigned' = sgParams
    /\ sgSent' = sgParams
    /\ sgPhase' = "signed"
    /\ UNCHANGED <<now, sgParams, sgSecret, sgTampered, sgRounds, sgQuery, sgForm, sgResult>>
    /\ UNCHANGED <<frVars, ppVars, rpVars, tkVars, arVars, lgVars, usVars>>

\* the client calls utils.GenerateAPIParams(appKey, appSecret, params),
\* possibly on a map that went through it before
SgGenerateAPIParams ==
    /\ \/ sgPhase = "input"
       \/ sgPhase = "signed" /\ sgRounds >= 1 /\ ~sgTampered
    /\ sgRounds < MaxRounds
    /\ Cardinality(DOMAIN sgParams \ (PublicKeys \cup {sSign})) <= MaxApiParams
    /\ LET p == WithPublicParams(ClientAppKey, now, sgParams)
       IN  /\ \E iter \in IterOrders(DOMAIN p) :
                 sgParams' = GenerateAPIParams(ClientAppKey, sgSecret, now, sgParams, iter)
           /\ sgSigned' = p
           /\ sgSent' = p
    /\ sgDigest' = sgParams'[sSign]
    /\ sgRounds' = sgRounds + 1
    /\ sgPhase' = "signed"
    /\ UNCHANGED <<now, sgSecret, sgTampered, sgQuery, sgForm, sgResult>>
    /\ UNCHANGED <<frVars, ppVars, rpVars, tkVars, arVars, lgVars, usVars>>

\* one value of the signed mapping changes on the way, the key set stays
SgTamper ==
    /\ sgPhase = "signed" /\ ~sgTampered
    /\ \E k \in DOMAIN sgSent : \E v \in ParamValues \ {sgSent[k]} :
          sgSent' = [sgSent EXCEPT ![k] = v]
    /\ sgTampered' = TRUE
    /\ UNCHANGED <<now, sgPhase, sgParams, sgSecret, sgSigned, sgDigest, sgRounds,
                   sgQuery, sgForm, sgResult>>
    /\ UNCHANGED <<frVars, ppVars, rpVars, tkVars, arVars, lgVars, usVars>>

\* the request goes out: the signature as query parameter `sign`, the other
\* parameters in the query string or, for the keys of F, in the form body
SgSend ==
    /\ sgPhase = "signed"
    /\ \E F \in SUBSET (DOMAIN sgSent \ {sSign}) :
          /\ Cardinality(F) <= 1
          /\ sgQuery' = Values1(MapSet([k \in DOMAIN sgSent \ F |-> sgSent[k]], sSign, sgDigest))
          /\ sgForm' = Values1([k \in F |-> sgSent[k]])
    /\ sgPhase' = "sent"
    /\ UNCHANGED <<now, sgParams, sgSecret, sgSigned, sgDigest, sgSent, sgTampered,
                   sgRounds, sgResult>>
    /\ UNCHANGED <<frVars, ppVars, rpVars, tkVars, arVars, lgVars, usVars>>

\* the middleware recomputes the digest and compares (signature.go 70-114)
SgVerify ==
    /\ sgPhase = "sent"
    /\ \E iter \in IterOrders(DOMAIN AllParams(sgQuery, sgForm)) :
          sgResult' = IF SignMatches(sgQuery, sgForm, iter, sgSecret) THEN "ok" ELSE "bad"
    /\ sgPhase' = "verified"
    /\ UNCHANGED <<now, sgParams, sgSecret, sgSigned, sgDigest, sgSent, sgTampered,
                   sgRounds, sgQuery, sgForm>>
    /\ UNCHANGED <<frVars, ppVars, rpVars, tkVars, arVars, lgVars, usVars>>

SgNext ==
    \/ SgGenerateSignature
    \/ SgGenerateAPIParams
    \/ SgTamper
    \/ SgSend
    \/ SgVerify

----------------------------------------------------------------------------
(* Replay guard on its own *)

Durations == (0 - TicksPerSecond - 1) .. (MaxWindow * TicksPerSecond + 1)

FrIdle ==
    /\ frPhase = "idle" /\ frTimestamp = 0 /\ frExpire = 0 /\ frExpired = FALSE

FrInit ==
    /\ frPhase = "input"
    /\ frTimestamp \in Int64
    /\ frExpire \in Durations
    /\ frExpired = FALSE

\* signature.go 64-68 for a request whose app_key matched
FrCheck ==
    /\ frPhase = "input"
    /\ frExpired' = Expired(now, frTimestamp, frExpire)
    /\ frPhase' = "checked"
    /\ UNCHANGED <<now, frTimestamp, frExpire>>
    /\ UNCHANGED <<sgVars, ppVars, rpVars, tkVars, arVars, lgVars, usVars>>

\* the same request arrives again one second later
FrResubmit ==
    /\ frPhase = "checked"
    /\ now < MaxNow
    /\ now' = now + 1
    /\ frPhase' = "input"
    /\ UNCHANGED <<frTimestamp, frExpire, frExpired>>
    /\ UNCHANGED <<sgVars, ppVars, rpVars, tkVars, arVars, lgVars, usVars>>

FrNext ==
    \/ FrCheck
    \/ FrResubmit

----------------------------------------------------------------------------
(* Configuration (config.Config, read-only after LoadConfig) *)

CfgAppKey    == ClientAppKey
CfgAppSecret == <<115, 51>>
CfgExpire    == 2 * TicksPerSecond
CfgJWTSecret == <<106>>
CfgJWTExpire == 3 * TicksPerSecond

----------------------------------------------------------------------------
(* The Signature middleware *)

\* signature.go 33-35: `c.Next(); return` stands ahead of every check
SignatureDisabled == TRUE

\* signature.go 37-120, the checks behind the early return; iter is the
\* iteration order of allParams.  "next" means c.Next().
SignatureChecks(r, t, iter) ==
    LET ts == IF sTimestamp \in DOMAIN r.query /\ r.query[sTimestamp][1] # sEmpty
              THEN ParseInt(r.query[sTimestamp][1])
              ELSE [ok |-> TRUE, val |-> 0]
    IN  IF r.method = "OPTIONS" THEN "next"
        ELSE IF r.signature # sEmpty THEN "next"
        ELSE IF ~ts.ok THEN "BadParams"
        ELSE IF QueryGet(r.query, sAppKey) # CfgAppKey THEN "InvalidAppKey"
        ELSE IF Expired(t, ts.val, CfgExpire) THEN "Expired"
        ELSE IF ~SignMatches(r.query, r.form, iter, CfgAppSecret) THEN "BadSignature"
        ELSE "next"

\* what the middleware does with the request
SignatureOutcomes(r, t) ==
    IF SignatureDisabled THEN {"next"}
    ELSE { SignatureChecks(r, t, iter) : iter \in IterOrders(DOMAIN AllParams(r.query, r.form)) }

----------------------------------------------------------------------------
(* The JWTAuth middleware *)

\* part_000 1219-1222: `c.Set("userID", uint(1)); c.Next(); return`
JWTAuthDisabled == TRUE

\* part_000 1224-1261, the checks behind the early return, at second t
JWTAuthChecks(authHeader, t) ==
    LET parts  == SplitN2(authHeader, 32)
        claims == IF Len(parts) = 2
                  THEN ParseToken(parts[2], CfgJWTSecret, t * TicksPerSecond)
                  ELSE [err |-> "malformed", UserID |-> 0]
    IN  IF authHeader = sEmpty THEN [out |-> "NoLogin", userID |-> 0]
        ELSE IF ~(Len(parts) = 2 /\ parts[1] = sBearer) THEN [out |-> "BadAuthFormat", userID |-> 0]
        ELSE IF claims.err # "" THEN [out |-> "AuthFailed", userID |-> 0]
        ELSE [out |-> "next", userID |-> claims.UserID]

\* what the middleware does with the request
JWTAuthOutcome(authHeader, t) ==
    IF JWTAuthDisabled THEN [out |-> "next", userID |-> 1]
    ELSE JWTAuthChecks(authHeader, t)

----------------------------------------------------------------------------
(* Requests explored *)

sBar == <<98>>
sX   == <<120>>

\* the parameters a client puts on the wire
ClientParams(bar, appKey, ts) ==
    (sBar :> bar) @@ (sAppKey :> appKey) @@ (sTimestamp :> ts) @@ (sNonce :> <<110>>)

\* timestamps as they appear in the query string
TsStrings ==
    { FormatInt(MinInt64), FormatInt(0), FormatInt(MaxNow), FormatInt(MaxInt64), sX }

\* the client signs bar=1 with the app secret and sends bar as given; a
\* request may also go out with no `sign` at all
RequestQueries ==
    UNION { UNION { UNION {
        { Values1(ClientParams(bar, ak, ts)) } \cup
        { Values1(MapSet(ClientParams(bar, ak, ts), sSign,
                         GenerateSignature(ClientParams(<<49>>, ak, ts), iter, CfgAppSecret))) :
              iter \in IterOrders(DOMAIN ClientParams(bar, ak, ts)) }
        : bar \in ParamValues } : ak \in {CfgAppKey, sX} } : ts \in TsStrings }

\* a token issued at time 0 for user 2, under the server secret or another
AuthHeaders ==
    { sEmpty, sBearer,
      GenerateToken(2, CfgJWTSecret, CfgJWTExpire, 0),
      sBearer \o sSpace \o GenerateToken(2, CfgJWTSecret, CfgJWTExpire, 0),
      sBearer \o sSpace \o GenerateToken(2, sX, CfgJWTExpire, 0) }

\* gin.Mode(): gin.DebugMode unless the configuration sets another
GinModes == {"debug", "release"}

\* no panic in flight, nothing recovered
NoPanic == [kind |-> "none", str |-> sEmpty, n |-> 0]

\* what a handler may panic with: a string or an integer
PanicValues ==
    { [kind |-> "string", str |-> <<98, 111, 111, 109>>, n |-> 0],
      [kind |-> "int", str |-> sEmpty, n |-> 7] }

\* fmt.Sprintf("%v", err)
Sprint(err) == IF err.kind = "string" THEN err.str ELSE FormatInt(err.n)

\* the lines of debug.Stack(), by number, for a shallow and a deep stack
StackTraces == { [i \in 1 .. n |-> i] : n \in {3, 12} }

\* error.go 44-46: at most this many stack lines reach the response
DetailLimit == 10

\* no ErrorResponse written
NoBody == [Code |-> 0, Message |-> "", Error |-> sEmpty, Details |-> <<>>]

\* err.Error() of the errors a handler attaches or wraps
sErr == <<101>>

\* error.go 35-51: the ErrorResponse built from recover()'s value
PanicResponse(err, stackLines, mode) ==
    [ Code |-> 500, Message |-> "InternalError", Error |-> Sprint(err),
      Details |-> IF mode = "debug"
                  THEN IF Len(stackLines) > DetailLimit
                       THEN SubSeq(stackLines, 1, DetailLimit) ELSE stackLines
                  ELSE <<>> ]

\* error.go 59-99: the ErrorResponse for the last of c.Errors, by err.Type
ErrorsResponse(type) ==
    IF type = "bind" THEN [Code |-> 400, Message |-> "BadRequestParams", Error |-> sErr, Details |-> <<>>]
    ELSE IF type = "private" THEN [Code |-> 400, Message |-> "err", Error |-> sEmpty, Details |-> <<>>]
    ELSE IF type = "public" THEN [Code |-> 500, Message |-> "err", Error |-> sEmpty, Details |-> <<>>]
    ELSE [Code |-> 500, Message |-> "InternalError", Error |-> sErr, Details |-> <<>>]

ErrorTypes == {"bind", "private", "public", "other"}

\* error.go 110-128: ErrorWrapper(c, statusCode, code, message, err)
ErrorWrapper(code, message, errStr) ==
    [Code |-> code, Message |-> message, Error |-> errStr, Details |-> <<>>]

\* faulty variant: no deferred recover() in ErrorHandler
Recovered_Never(p) == FALSE

\* error.go 24-26: `defer func() { if err := recover(); err != nil {`
Recovered(p) == p # NoPanic

\* part_001 59-65: the level of the application log record, by status
LogLevel(status) ==
    IF status >= 500 THEN "error" ELSE IF status >= 400 THEN "warn" ELSE "info"

PpIdle ==
    /\ ppPc = "idle" /\ ppChain = "main" /\ rq = <<>> /\ ppStatus = 0
    /\ ppMessage = "" /\ ppHandled = FALSE /\ ppUserID = 0 /\ ppAudits = 0
    /\ ppMode = "debug" /\ ppErrors = <<>> /\ ppPanic = NoPanic
    /\ ppRecovered = NoPanic /\ ppStack = <<>> /\ ppBody = NoBody /\ ppSyncIO = <<>>

\* c.Request.PostForm is empty: nothing has called ParseForm before the
\* middleware runs
PpInit ==
    /\ ppPc = "Logger"
    /\ ppChain \in {"main", "SetupMiddlewares"}
    /\ rq \in [ route : {"public", "authorized"},
                method : {"GET", "OPTIONS"},
                signature : {sEmpty, sX},
                query : RequestQueries,
                form : {<<>>},
                authorization : AuthHeaders ]
    \* only the public group registers a handler for every method (api.Any)
    /\ rq.method = "OPTIONS" => rq.route = "public"
    /\ ppStatus = 0 /\ ppMessage = "" /\ ppHandled = FALSE
    /\ ppUserID = 0 /\ ppAudits = 0
    /\ ppMode \in GinModes
    /\ ppErrors = <<>> /\ ppPanic = NoPanic /\ ppRecovered = NoPanic
    /\ ppStack = <<>> /\ ppBody = NoBody /\ ppSyncIO = <<>>

----------------------------------------------------------------------------
(* The middleware chain: Logger, ErrorHandler, Cors, [Signature],           *)
(* [JWTAuth on the authorized group], controller                            *)

AfterSignature == IF rq.route = "authorized" THEN "JWTAuth" ELSE "Handler"
AfterCors == IF ppChain = "SetupMiddlewares" THEN "Signature" ELSE AfterSignature

\* Logger(), up to its c.Next()
PpLoggerBefore ==
    /\ ppPc = "Logger"
    /\ ppPc' = "ErrorHandler"
    /\ UNCHANGED <<now, ppChain, rq, ppStatus, ppMessage, ppHandled, ppUserID, ppAudits>>
    /\ UNCHANGED <<ppMode, ppErrors, ppPanic, ppRecovered, ppStack, ppBody, ppSyncIO>>
    /\ UNCHANGED <<sgVars, frVars, rpVars, tkVars, arVars, lgVars, usVars>>

\* ErrorHandler(), up to its c.Next()
PpErrorHandlerBefore ==
    /\ ppPc = "ErrorHandler"
    /\ ppPc' = "Cors"
    /\ UNCHANGED <<now, ppChain, rq, ppStatus, ppMessage, ppHandled, ppUserID, ppAudits>>
    /\ UNCHANGED <<ppMode, ppErrors, ppPanic, ppRecovered, ppStack, ppBody, ppSyncIO>>
    /\ UNCHANGED <<sgVars, frVars, rpVars, tkVars, arVars, lgVars, usVars>>

\* Cors(cfg) for a request without an Origin header
PpCors ==
    /\ ppPc = "Cors"
    /\ ppPc' = AfterCors
    /\ UNCHANGED <<now, ppChain, rq, ppStatus, ppMessage, ppHandled, ppUserID, ppAudits>>
    /\ UNCHANGED <<ppMode, ppErrors, ppPanic, ppRecovered, ppStack, ppBody, ppSyncIO>>
    /\ UNCHANGED <<sgVars, frVars, rpVars, tkVars, arVars, lgVars, usVars>>

\* Signature(config): c.Next(), or ErrorWrapper(c, 400, ...) which aborts
PpSignature ==
    /\ ppPc = "Signature"
    /\ \E out \in SignatureOutcomes(rq, now) :
          IF out = "next"
          THEN /\ ppPc' = AfterSignature
               /\ UNCHANGED <<ppStatus, ppMessage, ppBody>>
          ELSE /\ ppPc' = "ErrorHandlerAfter"
               /\ ppStatus' = 400
               /\ ppMessage' = out
               /\ ppBody' = ErrorWrapper(400, out, sEmpty)
    /\ UNCHANGED <<now, ppChain, rq, ppHandled, ppUserID, ppAudits>>
    /\ UNCHANGED <<ppMode, ppErrors, ppPanic, ppRecovered, ppStack, ppSyncIO>>
    /\ UNCHANGED <<sgVars, frVars, rpVars, tkVars, arVars, lgVars, usVars>>

\* JWTAuth(cfg): c.Set("userID", ...) and c.Next(), or a 401 and c.Abort()
PpJWTAuth ==
    /\ ppPc = "JWTAuth"
    /\ LET r == JWTAuthOutcome(rq.authorization, now)
       IN  IF r.out = "next"
           THEN /\ ppPc' = "Handler"
                /\ ppUserID' = r.userID
                /\ UNCHANGED <<ppStatus, ppMessage, ppBody>>
           ELSE /\ ppPc' = "ErrorHandlerAfter"
                /\ ppStatus' = 401
                /\ ppMessage' = r.out
                /\ ppBody' = [NoBody EXCEPT !.Code = 401, !.Message = r.out]
                /\ UNCHANGED ppUserID
    /\ UNCHANGED <<now, ppChain, rq, ppHandled, ppAudits>>
    /\ UNCHANGED <<ppMode, ppErrors, ppPanic, ppRecovered, ppStack, ppSyncIO>>
    /\ UNCHANGED <<sgVars, frVars, rpVars, tkVars, arVars, lgVars, usVars>>

\* the controller registered for the route: it answers, or fails with
\* ErrorWrapper, or attaches an error with c.Error, or panics
PpHandler ==
    /\ ppPc = "Handler"
    /\ ppHandled' = TRUE
    /\ \/ /\ ppStatus' = 200
          /\ UNCHANGED <<ppMessage, ppErrors, ppPanic, ppStack, ppBody>>
       \/ /\ ppStatus' = 400
          /\ ppMessage' = "HandlerError"
          /\ ppBody' = ErrorWrapper(400, "HandlerError", sErr)
          /\ UNCHANGED <<ppErrors, ppPanic, ppStack>>
       \/ /\ \E type \in ErrorTypes : ppErrors' = <<type>>
          /\ UNCHANGED <<ppStatus, ppMessage, ppPanic, ppStack, ppBody>>
       \/ /\ ppPanic' \in PanicValues
          /\ ppStack' \in StackTraces
          /\ UNCHANGED <<ppStatus, ppMessage, ppErrors, ppBody>>
    /\ ppPc' = "ErrorHandlerAfter"
    /\ UNCHANGED <<now, ppChain, rq, ppUserID, ppAudits, ppMode, ppRecovered, ppSyncIO>>
    /\ UNCHANGED <<sgVars, frVars, rpVars, tkVars, arVars, lgVars, usVars>>

\* ErrorHandler() once c.Next() is over: the deferred recover() when a panic
\* unwinds (error.go 24-53), else the c.Errors handling (error.go 59-105)
PpErrorHandlerAfter ==
    /\ ppPc = "ErrorHandlerAfter"
    /\ IF Recovered(ppPanic)
       THEN /\ ppRecovered' = ppPanic
            /\ ppPanic' = NoPanic
            /\ ppBody' = PanicResponse(ppPanic, ppStack, ppMode)
            /\ ppStatus' = 500
            /\ ppMessage' = "InternalError"
       ELSE IF ppPanic = NoPanic /\ Len(ppErrors) > 0 /\ ppStatus = 0
       THEN /\ ppBody' = ErrorsResponse(ppErrors[Len(ppErrors)])
            /\ ppStatus' = ppBody'.Code
            /\ ppMessage' = ppBody'.Message
            /\ UNCHANGED <<ppPanic, ppRecovered>>
       ELSE UNCHANGED <<ppPanic, ppRecovered, ppBody, ppStatus, ppMessage>>
    /\ ppPc' = "LoggerAfter"
    /\ UNCHANGED <<now, ppChain, rq, ppHandled, ppUserID, ppAudits, ppMode, ppErrors,
                   ppStack, ppSyncIO>>
    /\ UNCHANGED <<sgVars, frVars, rpVars, tkVars, arVars, lgVars, usVars>>

\* Logger() once c.Next() is over (part_001 24-84): utils.Error / Warn / Info
\* called in place, then `go utils.LogRequest(reqLog)`.  A panic still
\* unwinding skips all of it and ends in gin.Recovery() (main.go, 500).
PpLoggerAfter ==
    /\ ppPc = "LoggerAfter"
    /\ IF ppPanic # NoPanic
       THEN /\ ppStatus' = 500
            /\ UNCHANGED <<ppSyncIO, ppAudits>>
       ELSE /\ ppSyncIO' = Append(ppSyncIO, LogLevel(ppStatus))
            /\ ppAudits' = ppAudits + 1
            /\ UNCHANGED ppStatus
    /\ ppPc' = "Done"
    /\ UNCHANGED <<now, ppChain, rq, ppMessage, ppHandled, ppUserID, ppMode, ppErrors,
                   ppPanic, ppRecovered, ppStack, ppBody>>
    /\ UNCHANGED <<sgVars, frVars, rpVars, tkVars, arVars, lgVars, usVars>>

PpNext ==
    \/ PpLoggerBefore
    \/ PpErrorHandlerBefore
    \/ PpCors
    \/ PpSignature
    \/ PpJWTAuth
    \/ PpHandler
    \/ PpErrorHandlerAfter
    \/ PpLoggerAfter

----------------------------------------------------------------------------
(* One signed request submitted repeatedly to the checks of signature.go *)

RpIdle ==
    /\ rpPhase = "idle" /\ rpReq = <<>> /\ rpTs = 0
    /\ rpOut = "" /\ rpMw = "" /\ rpCount = 0

\* the client builds the request with utils.GenerateAPIParams at second rpTs
\* and sends every parameter in the query string
RpInit ==
    /\ rpPhase = "arrived"
    /\ rpTs \in 0 .. MaxNow
    /\ \E params \in {<<>>, (sBar :> <<49>>)} :
       \E iter \in IterOrders(DOMAIN WithPublicParams(CfgAppKey, rpTs, params)) :
          rpReq = [ route |-> "public", method |-> "GET", signature |-> sEmpty,
                    query |-> Values1(GenerateAPIParams(CfgAppKey, CfgAppSecret, rpTs,
                                                        params, iter)),
                    form |-> <<>>, authorization |-> sEmpty ]
    /\ rpOut = "" /\ rpMw = "" /\ rpCount = 0

\* the request reaches Signature(config): rpOut is what lines 37-120 make of
\* it, rpMw what the middleware with its early return makes of it
RpVerify ==
    /\ rpPhase = "arrived"
    /\ \E iter \in IterOrders(DOMAIN AllParams(rpReq.query, rpReq.form)) :
          rpOut' = SignatureChecks(rpReq, now, iter)
    /\ rpMw' \in SignatureOutcomes(rpReq, now)
    /\ rpCount' = rpCount + 1
    /\ rpPhase' = "verified"
    /\ UNCHANGED <<now, rpReq, rpTs>>
    /\ UNCHANGED <<sgVars, frVars, ppVars, tkVars, arVars, lgVars, usVars>>

\* the identical request (same timestamp, nonce and sign) is sent again, at
\* once or a second later
RpResubmit ==
    /\ rpPhase = "verified"
    /\ rpCount <= MaxResubmits
    /\ \/ UNCHANGED now
       \/ now < MaxNow /\ now' = now + 1
    /\ rpPhase' = "arrived"
    /\ UNCHANGED <<rpReq, rpTs, rpOut, rpMw, rpCount>>
    /\ UNCHANGED <<sgVars, frVars, ppVars, tkVars, arVars, lgVars, usVars>>

RpNext ==
    \/ RpVerify
    \/ RpResubmit

----------------------------------------------------------------------------
(* One session token issued and parsed *)

UserIDs == 0 .. 2

\* the claims of a call that failed
NoClaims == [err |-> "", UserID |-> 0]

TkIdle ==
    /\ tkPhase = "idle" /\ tkNow = 0 /\ tkUserID = 0 /\ tkSecret = sEmpty
    /\ tkExpire = 0 /\ tkIssuedAt = 0 /\ tkToken = sEmpty /\ tkAltered = FALSE
    /\ tkParseSecret = sEmpty /\ tkResult = NoClaims

TkInit ==
    /\ tkPhase = "input"
    /\ tkNow \in 0 .. (2 * TicksPerSecond)
    /\ tkUserID \in UserIDs
    /\ tkSecret \in Secrets
    /\ tkParseSecret \in Secrets
    /\ tkExpire \in Durations
    /\ tkIssuedAt = 0 /\ tkToken = sEmpty /\ tkAltered = FALSE
    /\ tkResult = NoClaims

\* GenerateToken(userID, secret, expire)
TkGenerateToken ==
    /\ tkPhase = "input"
    /\ tkToken' = GenerateToken(tkUserID, tkSecret, tkExpire, tkNow)
    /\ tkIssuedAt' = tkNow
    /\ tkPhase' = "issued"
    /\ UNCHANGED <<now, tkNow, tkUserID, tkSecret, tkExpire, tkAltered, tkParseSecret, tkResult>>
    /\ UNCHANGED <<sgVars, frVars, ppVars, rpVars, arVars, lgVars, usVars>>

\* one byte of the integrity tag changes on the way
TkAlter ==
    /\ tkPhase = "issued" /\ ~tkAltered
    /\ \E i \in (IndexByte(tkToken, 46) + 1) .. Len(tkToken) :
          tkToken' = [tkToken EXCEPT ![i] = IF @ = 33 THEN 34 ELSE 33]
    /\ tkAltered' = TRUE
    /\ UNCHANGED <<now, tkPhase, tkNow, tkUserID, tkSecret, tkExpire, tkIssuedAt,
                   tkParseSecret, tkResult>>
    /\ UNCHANGED <<sgVars, frVars, ppVars, rpVars, arVars, lgVars, usVars>>

\* time passes between issuance and verification
TkTick ==
    /\ tkPhase = "issued"
    /\ tkNow < MaxNow * TicksPerSecond
    /\ tkNow' = tkNow + 1
    /\ UNCHANGED <<now, tkPhase, tkUserID, tkSecret, tkExpire, tkIssuedAt, tkToken,
                   tkAltered, tkParseSecret, tkResult>>
    /\ UNCHANGED <<sgVars, frVars, ppVars, rpVars, arVars, lgVars, usVars>>

\* ParseToken(tokenString, secret)
TkParseToken ==
    /\ tkPhase = "issued"
    /\ tkResult' = ParseToken(tkToken, tkParseSecret, tkNow)
    /\ tkPhase' = "parsed"
    /\ UNCHANGED <<now, tkNow, tkUserID, tkSecret, tkExpire, tkIssuedAt, tkToken,
                   tkAltered, tkParseSecret>>
    /\ UNCHANGED <<sgVars, frVars, ppVars, rpVars, arVars, lgVars, usVars>>

TkNext ==
    \/ TkGenerateToken
    \/ TkAlter
    \/ TkTick
    \/ TkParseToken

----------------------------------------------------------------------------
(* The request logger: InitRequestLogger, updateWriter, LogRequest, with    *)
(* the rotation goroutine and one goroutine per audit record                *)

Callers == 1 .. MaxCallers

\* the rotation goroutine, as a holder of requestLogger.mutex
RotId == MaxCallers + 1

\* logger.go 34-43
defaultLogConfig ==
    [LogDir |-> "logs", LogFileName |-> "app.log", ConsoleOutput |-> TRUE, RotateDaily |-> TRUE]

\* the zero LogConfig of a RequestLogger that was never built
ZeroConfig ==
    [LogDir |-> "", LogFileName |-> "", ConsoleOutput |-> FALSE, RotateDaily |-> FALSE]

\* filepath.Join(elem...): empty elements are ignored, the rest are joined
\* by the separator; a path is the sequence of its elements
Join(elems) == SelectSeq(elems, LAMBDA e : e # "")

\* no directory created
NoDir == <<>>

\* request_logger.go 48-53: the directory the init body creates and reports
RequestLogDir(config) ==
    IF config.LogDir = "" THEN <<"logs", "requests">>
    ELSE Join(<<config.LogDir, "requests">>)

\* requestLogger.writer == nil
NoWriter == [dir |-> <<>>, day |-> 0 - 1, name |-> ""]

\* request_logger.go 101-106: the Filename updateWriter gives the writer
RequestFile(config, day) ==
    IF config.RotateDaily
    THEN [dir |-> Join(<<config.LogDir, "requests">>), day |-> day,
          name |-> "requests-<day>.log"]
    ELSE [dir |-> Join(<<config.LogDir, "requests">>), day |-> 0 - 1,
          name |-> "requests.log"]

\* the LogConfig values handed to InitRequestLogger (main.go passes LogDir
\* "logs" and RotateDaily true; LogFileName and ConsoleOutput stay zero)
RequestLogConfigs ==
    { [ZeroConfig EXCEPT !.LogDir = "logs", !.RotateDaily = TRUE],
      [ZeroConfig EXCEPT !.LogDir = "logs"],
      [ZeroConfig EXCEPT !.RotateDaily = TRUE] }

\* faulty variant: Lock does not wait for the holder
MutexFree_Always(m) == TRUE

\* sync.Mutex: Lock returns once no goroutine holds the mutex
MutexFree(m) == m = 0

ArIdle ==
    /\ arMain = "idle" /\ arRot = "off" /\ arPc = <<>> /\ arFs = "ok"
    /\ arArg = <<>> /\ arConfig = <<>> /\ arDir = <<>> /\ arOnceDone = FALSE
    /\ arLogger = "nil" /\ arWriter = NoWriter /\ arMutex = 0 /\ arDay = 0
    /\ arWake = 0 /\ arEmitDay = <<>> /\ arJsonOk = <<>> /\ arLines = <<>>
    /\ arCrashed = FALSE

\* the process has started, main has not yet called InitRequestLogger
ArInit ==
    /\ arMain = "start" /\ arRot = "off"
    /\ arPc = [p \in Callers |-> "idle"]
    /\ arFs \in {"ok", "nodir", "nowrite"}
    /\ arArg \in RequestLogConfigs
    /\ arConfig = ZeroConfig /\ arDir = NoDir
    /\ arOnceDone = FALSE /\ arLogger = "nil" /\ arWriter = NoWriter
    /\ arMutex = 0 /\ arDay = 0 /\ arWake = 0
    /\ arEmitDay = [p \in Callers |-> 0]
    /\ arJsonOk = [p \in Callers |-> TRUE]
    /\ arLines = <<>> /\ arCrashed = FALSE

\* InitRequestLogger(config) (request_logger.go 45-91): reqLogOnce.Do runs
\* the body for its first caller only.  The body: MkdirAll or return; the
\* RequestLogger; with RotateDaily the goroutine is only started, otherwise
\* updateWriter() runs before the body ends.
InitRequestLogger(config) ==
    IF arOnceDone
    THEN UNCHANGED <<arOnceDone, arLogger, arConfig, arDir, arWriter, arRot>>
    ELSE /\ arOnceDone' = TRUE
         /\ IF arFs = "nodir"
            THEN UNCHANGED <<arLogger, arConfig, arDir, arWriter, arRot>>
            ELSE /\ arDir' = RequestLogDir(config)
                 /\ arLogger' = "set"
                 /\ arConfig' = config
                 /\ IF config.RotateDaily
                    THEN /\ arRot' = "updateWriter"
                         /\ UNCHANGED arWriter
                    ELSE /\ arWriter' = RequestFile(config, arDay)
                         /\ UNCHANGED arRot

\* main calls utils.InitRequestLogger(...) (main.go 218-225)
ArInitRequestLogger ==
    /\ ~arCrashed
    /\ arMain = "start"
    /\ arMain' = "serving"
    /\ InitRequestLogger(arArg)
    /\ UNCHANGED <<now, arPc, arFs, arArg, arMutex, arDay, arWake, arEmitDay, arJsonOk,
                   arLines, arCrashed>>
    /\ UNCHANGED <<sgVars, frVars, ppVars, rpVars, tkVars, lgVars, usVars>>

\* the rotation goroutine enters requestLogger.updateWriter()
\* (request_logger.go 71, 95): rl.mutex.Lock()
ArRotLock ==
    /\ ~arCrashed
    /\ arRot = "updateWriter"
    /\ MutexFree(arMutex)
    /\ arMutex' = RotId
    /\ arRot' = "swap"
    /\ UNCHANGED <<now, arMain, arPc, arFs, arArg, arConfig, arDir, arOnceDone, arLogger,
                   arWriter, arDay, arWake, arEmitDay, arJsonOk, arLines, arCrashed>>
    /\ UNCHANGED <<sgVars, frVars, ppVars, rpVars, tkVars, lgVars, usVars>>

\* updateWriter under the mutex (request_logger.go 96-117): a new writer on
\* today's file name, then the deferred Unlock
ArRotUpdateWriter ==
    /\ ~arCrashed
    /\ arRot = "swap"
    /\ arWriter' = RequestFile(arConfig, arDay)
    /\ arMutex' = 0
    /\ arRot' = "plan"
    /\ UNCHANGED <<now, arMain, arPc, arFs, arArg, arConfig, arDir, arOnceDone, arLogger,
                   arDay, arWake, arEmitDay, arJsonOk, arLines, arCrashed>>
    /\ UNCHANGED <<sgVars, frVars, ppVars, rpVars, tkVars, lgVars, usVars>>

\* the rotation goroutine reads the clock again, computes tomorrow 0:00 and
\* goes to sleep (request_logger.go 73-79)
ArRotSleep ==
    /\ ~arCrashed
    /\ arRot = "plan"
    /\ arWake' = arDay + 1
    /\ arRot' = "sleep"
    /\ UNCHANGED <<now, arMain, arPc, arFs, arArg, arConfig, arDir, arOnceDone, arLogger,
                   arWriter, arMutex, arDay, arEmitDay, arJsonOk, arLines, arCrashed>>
    /\ UNCHANGED <<sgVars, frVars, ppVars, rpVars, tkVars, lgVars, usVars>>

\* time.Sleep returns, some time after the instant slept until
ArRotWake ==
    /\ ~arCrashed
    /\ arRot = "sleep"
    /\ arDay >= arWake
    /\ arRot' = "updateWriter"
    /\ UNCHANGED <<now, arMain, arPc, arFs, arArg, arConfig, arDir, arOnceDone, arLogger,
                   arWriter, arMutex, arDay, arWake, arEmitDay, arJsonOk, arLines, arCrashed>>
    /\ UNCHANGED <<sgVars, frVars, ppVars, rpVars, tkVars, lgVars, usVars>>

\* local midnight passes
ArMidnight ==
    /\ ~arCrashed
    /\ arDay < MaxDays
    /\ arDay' = arDay + 1
    /\ UNCHANGED <<now, arMain, arRot, arPc, arFs, arArg, arConfig, arDir, arOnceDone,
                   arLogger, arWriter, arMutex, arWake, arEmitDay, arJsonOk, arLines,
                   arCrashed>>
    /\ UNCHANGED <<sgVars, frVars, ppVars, rpVars, tkVars, lgVars, usVars>>

\* the Logger middleware of a request served after main's initialization
\* builds reqLog with Time: time.Now() and starts
\* `go utils.LogRequest(reqLog)` (part_001 68-84)
ArEmit(p) ==
    /\ ~arCrashed
    /\ arMain = "serving"
    /\ arPc[p] = "idle"
    /\ arEmitDay' = [arEmitDay EXCEPT ![p] = arDay]
    /\ \E ok \in BOOLEAN : arJsonOk' = [arJsonOk EXCEPT ![p] = ok]
    /\ arPc' = [arPc EXCEPT ![p] = "LogRequest"]
    /\ UNCHANGED <<now, arMain, arRot, arFs, arArg, arConfig, arDir, arOnceDone, arLogger,
                   arWriter, arMutex, arDay, arWake, arLines, arCrashed>>
    /\ UNCHANGED <<sgVars, frVars, ppVars, rpVars, tkVars, lgVars, usVars>>

\* LogRequest up to its Lock (request_logger.go 120-137): with requestLogger
\* nil, InitRequestLogger(defaultLogConfig), which finds reqLogOnce spent by
\* main's call; json.Marshal, on failure the record is dropped; then
\* requestLogger.mutex is reached through the pointer, which is still nil
\* when MkdirAll failed in the init body
ArLogRequest(p) ==
    /\ ~arCrashed
    /\ arPc[p] = "LogRequest"
    /\ IF arLogger = "nil"
       THEN InitRequestLogger(defaultLogConfig)
       ELSE UNCHANGED <<arOnceDone, arLogger, arConfig, arDir, arWriter, arRot>>
    /\ IF ~arJsonOk[p]
       THEN /\ arPc' = [arPc EXCEPT ![p] = "Dropped"]
            /\ UNCHANGED arCrashed
       ELSE IF arLogger' = "nil"
       THEN /\ arPc' = [arPc EXCEPT ![p] = "Crashed"]
            /\ arCrashed' = TRUE
       ELSE /\ arPc' = [arPc EXCEPT ![p] = "Lock"]
            /\ UNCHANGED arCrashed
    /\ UNCHANGED <<now, arMain, arFs, arArg, arMutex, arDay, arWake, arEmitDay, arJsonOk,
                   arLines>>
    /\ UNCHANGED <<sgVars, frVars, ppVars, rpVars, tkVars, lgVars, usVars>>

\* requestLogger.mutex.Lock() (request_logger.go 137)
ArLock(p) ==
    /\ ~arCrashed
    /\ arPc[p] = "Lock"
    /\ MutexFree(arMutex)
    /\ arMutex' = p
    /\ arPc' = [arPc EXCEPT ![p] = "Locked"]
    /\ UNCHANGED <<now, arMain, arRot, arFs, arArg, arConfig, arDir, arOnceDone, arLogger,
                   arWriter, arDay, arWake, arEmitDay, arJsonOk, arLines, arCrashed>>
    /\ UNCHANGED <<sgVars, frVars, ppVars, rpVars, tkVars, lgVars, usVars>>

\* LogRequest under the mutex (request_logger.go 138-148).  With no writer
\* yet it calls updateWriter(), whose rl.mutex.Lock() waits for the mutex the
\* caller itself holds: the goroutine stays at "Relock".  Otherwise Write (a
\* failed Write is reported through Error and the call returns) and the
\* deferred Unlock.
ArWrite(p) ==
    /\ ~arCrashed
    /\ arPc[p] = "Locked"
    /\ IF arWriter = NoWriter
       THEN /\ arPc' = [arPc EXCEPT ![p] = "Relock"]
            /\ UNCHANGED <<arMutex, arLines>>
       ELSE /\ arLines' = IF arFs = "nowrite" THEN arLines
                          ELSE Append(arLines, <<p, arWriter>>)
            /\ arMutex' = 0
            /\ arPc' = [arPc EXCEPT ![p] = "Done"]
    /\ UNCHANGED <<now, arMain, arRot, arFs, arArg, arConfig, arDir, arOnceDone, arLogger,
                   arWriter, arDay, arWake, arEmitDay, arJsonOk, arCrashed>>
    /\ UNCHANGED <<sgVars, frVars, ppVars, rpVars, tkVars, lgVars, usVars>>

ArNext ==
    \/ ArInitRequestLogger
    \/ ArRotLock
    \/ ArRotUpdateWriter
    \/ ArRotSleep
    \/ ArRotWake
    \/ ArMidnight
    \/ \E p \in Callers : ArEmit(p)
    \/ \E p \in Callers : ArLogRequest(p)
    \/ \E p \in Callers : ArLock(p)
    \/ \E p \in Callers : ArWrite(p)

----------------------------------------------------------------------------
(* The application logger: InitLogger, InitLoggerWithConfig, GetLogger and  *)
(* the log calls, from the main goroutine and a goroutine serving a request *)

LgTasks == {"main", "request"}

\* the goroutines whose panics are caught: one serving a request runs under
\* ErrorHandler's deferred recover() (error.go 24-53) and gin.Recovery
\* (main.go 258); a panic of any other goroutine ends the process
RecoveredTasks == {"request"}

\* the configurations handed to InitLoggerWithConfig
LogConfigs ==
    { defaultLogConfig,
      [LogDir |-> "var", LogFileName |-> "svc.log", ConsoleOutput |-> FALSE, RotateDaily |-> TRUE],
      [LogDir |-> "var", LogFileName |-> "svc.log", ConsoleOutput |-> FALSE, RotateDaily |-> FALSE] }

LogOps == {"Info", "Warn", "Error", "Fatal"}

\* zapcore.Level of the records made by Info, Warn, Error and Fatal
LevelOf == [Info |-> 0, Warn |-> 1, Error |-> 2, Fatal |-> 5]

\* zapcore.ErrorLevel
ErrorLevel == 2

\* logger.go 78-80: highPriority is lvl >= zapcore.ErrorLevel
HighPriority(level) == LevelOf[level] >= ErrorLevel

\* faulty variant: the info core takes every level
LowPriority_All(level) == TRUE

\* logger.go 81-83: lowPriority is lvl < zapcore.ErrorLevel
LowPriority(level) == LevelOf[level] < ErrorLevel

\* logger.go 88-96: logFilename / errorLogFilename on the day the body runs
LogFile(config, day, high) ==
    IF config.RotateDaily
    THEN [dir |-> config.LogDir, day |-> day, prefix |-> "",
          name |-> IF high THEN "_error.log" ELSE ".log"]
    ELSE [dir |-> config.LogDir, day |-> 0 - 1, prefix |-> IF high THEN "error_" ELSE "info_",
          name |-> config.LogFileName]

NoFile == [dir |-> "", day |-> 0 - 1, prefix |-> "", name |-> ""]

\* logger == nil
NilLogger == [set |-> FALSE, config |-> defaultLogConfig, info |-> NoFile, error |-> NoFile]

\* logger.go 98-146: the zap logger over the two lumberjack files
NewLogger(config, day) ==
    [set |-> TRUE, config |-> config,
     info |-> LogFile(config, day, FALSE), error |-> LogFile(config, day, TRUE)]

\* logger.go 123-126: what the two file cores of the tee write for record n:
\* each core writes the record when its level enabler accepts the level
FileCores(lg, level, day, n) ==
    (IF HighPriority(level)
     THEN <<[file |-> lg.error, day |-> day, level |-> level, rec |-> n]>> ELSE <<>>)
    \o (IF LowPriority(level)
        THEN <<[file |-> lg.info, day |-> day, level |-> level, rec |-> n]>> ELSE <<>>)

\* logger.go 129-136: the console cores added with ConsoleOutput
ConsoleCores(lg, level, n) ==
    IF ~lg.config.ConsoleOutput THEN <<>>
    ELSE (IF HighPriority(level)
          THEN <<[stream |-> "stderr", level |-> level, rec |-> n]>> ELSE <<>>)
         \o (IF LowPriority(level)
             THEN <<[stream |-> "stdout", level |-> level, rec |-> n]>> ELSE <<>>)

\* faulty variant: the body is not wrapped in once.Do
OnceRuns_Always(once) == TRUE

\* sync.Once: Do runs its function for the first caller only
OnceRuns(once) == once = "fresh"

NoOp == [op |-> "none", config |-> defaultLogConfig]

LgIdle ==
    /\ lgPc = <<>> /\ lgOp = <<>> /\ lgFs = "ok" /\ lgOnce = "fresh"
    /\ lgLogger = NilLogger /\ lgInits = <<>> /\ lgDay = 0 /\ lgLines = <<>>
    /\ lgCalls = 0 /\ lgPanics = 0
    /\ lgConsole = <<>> /\ lgRecords = 0 /\ lgHalted = FALSE

LgInit ==
    /\ lgPc = [t \in LgTasks |-> "idle"]
    /\ lgOp = [t \in LgTasks |-> NoOp]
    /\ lgFs \in {"ok", "nodir"}
    /\ lgOnce = "fresh" /\ lgLogger = NilLogger /\ lgInits = <<>>
    /\ lgDay = 0 /\ lgLines = <<>> /\ lgCalls = 0 /\ lgPanics = 0
    /\ lgConsole = <<>> /\ lgRecords = 0 /\ lgHalted = FALSE

\* where a call continues once the logger is there
LgAfterInit(t) == IF lgOp[t].op \in LogOps THEN "log" ELSE "idle"

\* a panic in goroutine t: recovered by the middleware of the request it
\* serves, or the end of the process
PanicHalts(t) == t \notin RecoveredTasks

\* a goroutine calls InitLogger(), InitLoggerWithConfig(config), Info(...),
\* Warn(...), Error(...) or Fatal(...)
LgCall(t) ==
    /\ ~lgHalted
    /\ lgPc[t] = "idle"
    /\ lgCalls < MaxCalls
    /\ \/ /\ lgOp' = [lgOp EXCEPT ![t] = [op |-> "InitLogger", config |-> defaultLogConfig]]
          /\ lgPc' = [lgPc EXCEPT ![t] = "onceDo"]
       \/ /\ \E config \in LogConfigs :
                lgOp' = [lgOp EXCEPT ![t] = [op |-> "InitLoggerWithConfig", config |-> config]]
          /\ lgPc' = [lgPc EXCEPT ![t] = "onceDo"]
       \/ /\ \E op \in LogOps :
                lgOp' = [lgOp EXCEPT ![t] = [op |-> op, config |-> defaultLogConfig]]
          /\ lgPc' = [lgPc EXCEPT ![t] = "GetLogger"]
    /\ lgCalls' = lgCalls + 1
    /\ UNCHANGED <<now, lgFs, lgOnce, lgLogger, lgInits, lgDay, lgLines, lgPanics, lgConsole,
                   lgRecords, lgHalted>>
    /\ UNCHANGED <<sgVars, frVars, ppVars, rpVars, tkVars, arVars, usVars>>

\* GetLogger (logger.go 161-164): `if logger == nil { InitLogger() }`, the
\* read of logger not ordered with the write in the init body
LgGetLogger(t) ==
    /\ ~lgHalted
    /\ lgPc[t] = "GetLogger"
    /\ lgPc' = [lgPc EXCEPT ![t] = IF lgLogger = NilLogger THEN "onceDo" ELSE "log"]
    /\ UNCHANGED <<now, lgOp, lgFs, lgOnce, lgLogger, lgInits, lgDay, lgLines, lgCalls,
                   lgPanics, lgConsole, lgRecords, lgHalted>>
    /\ UNCHANGED <<sgVars, frVars, ppVars, rpVars, tkVars, arVars, usVars>>

\* once.Do(f) (logger.go 52): the first caller goes on to run f, a caller
\* arriving while f runs waits, a caller arriving later returns at once
LgOnceDo(t) ==
    /\ ~lgHalted
    /\ lgPc[t] = "onceDo"
    /\ IF OnceRuns(lgOnce)
       THEN /\ lgOnce' = "running"
            /\ lgPc' = [lgPc EXCEPT ![t] = "body"]
       ELSE /\ lgOnce = "done"
            /\ lgPc' = [lgPc EXCEPT ![t] = LgAfterInit(t)]
            /\ UNCHANGED lgOnce
    /\ UNCHANGED <<now, lgOp, lgFs, lgLogger, lgInits, lgDay, lgLines, lgCalls, lgPanics,
                   lgConsole, lgRecords, lgHalted>>
    /\ UNCHANGED <<sgVars, frVars, ppVars, rpVars, tkVars, arVars, usVars>>

\* the function handed to once.Do (logger.go 53-156): MkdirAll or panic,
\* file names from today's date, the logger, its first record.  The once is
\* spent also when the function panics.
LgInitBody(t) ==
    /\ ~lgHalted
    /\ lgPc[t] = "body"
    /\ lgOnce' = "done"
    /\ lgInits' = Append(lgInits, [op |-> lgOp[t].op, config |-> lgOp[t].config,
                                   day |-> lgDay, ok |-> lgFs = "ok"])
    /\ IF lgFs = "nodir"
       THEN /\ lgPanics' = lgPanics + 1
            /\ lgHalted' = PanicHalts(t)
            /\ lgPc' = [lgPc EXCEPT ![t] = "idle"]
            /\ UNCHANGED <<lgLogger, lgLines, lgConsole, lgRecords>>
       ELSE /\ lgLogger' = NewLogger(lgOp[t].config, lgDay)
            /\ lgRecords' = lgRecords + 1
            /\ lgLines' = lgLines \o FileCores(lgLogger', "Info", lgDay, lgRecords')
            /\ lgConsole' = lgConsole \o ConsoleCores(lgLogger', "Info", lgRecords')
            /\ lgPc' = [lgPc EXCEPT ![t] = LgAfterInit(t)]
            /\ UNCHANGED <<lgPanics, lgHalted>>
    /\ UNCHANGED <<now, lgOp, lgFs, lgDay, lgCalls>>
    /\ UNCHANGED <<sgVars, frVars, ppVars, rpVars, tkVars, arVars, usVars>>

\* GetLogger().Info(msg) and the like (logger.go 165, 182-199): a nil logger
\* panics; otherwise every core that accepts the level writes the record,
\* and Fatal then exits the process
LgLog(t) ==
    /\ ~lgHalted
    /\ lgPc[t] = "log"
    /\ IF lgLogger = NilLogger
       THEN /\ lgPanics' = lgPanics + 1
            /\ lgHalted' = PanicHalts(t)
            /\ UNCHANGED <<lgLines, lgConsole, lgRecords>>
       ELSE /\ lgRecords' = lgRecords + 1
            /\ lgLines' = lgLines \o FileCores(lgLogger, lgOp[t].op, lgDay, lgRecords')
            /\ lgConsole' = lgConsole \o ConsoleCores(lgLogger, lgOp[t].op, lgRecords')
            /\ lgHalted' = (lgOp[t].op = "Fatal")
            /\ UNCHANGED lgPanics
    /\ lgPc' = [lgPc EXCEPT ![t] = "idle"]
    /\ UNCHANGED <<now, lgOp, lgFs, lgOnce, lgLogger, lgInits, lgDay, lgCalls>>
    /\ UNCHANGED <<sgVars, frVars, ppVars, rpVars, tkVars, arVars, usVars>>

\* local midnight passes
LgMidnight ==
    /\ ~lgHalted
    /\ lgDay < MaxDays
    /\ lgDay' = lgDay + 1
    /\ UNCHANGED <<now, lgPc, lgOp, lgFs, lgOnce, lgLogger, lgInits, lgLines, lgCalls,
                   lgPanics, lgConsole, lgRecords, lgHalted>>
    /\ UNCHANGED <<sgVars, frVars, ppVars, rpVars, tkVars, arVars, usVars>>

LgNext ==
    \/ \E t \in LgTasks : LgCall(t)
    \/ \E t \in LgTasks : LgGetLogger(t)
    \/ \E t \in LgTasks : LgOnceDo(t)
    \/ \E t \in LgTasks : LgInitBody(t)
    \/ \E t \in LgTasks : LgLog(t)
    \/ LgMidnight

----------------------------------------------------------------------------
(* The user service: Register and Login of UserServiceImpl over the users   *)
(* collection, called from goroutines serving concurrent requests           *)

UsTasks == {"r1", "r2"}

Usernames == {"ann", "bob"}
Emails    == {"ann@x", "bob@x"}
Passwords == {<<112>>, <<113>>}

\* middleware.HashPassword(password): the digest, symbolic
HashPassword(password) == <<2>> \o password

\* middleware.CheckPasswordHash(password, hash)
CheckPasswordHash(password, hash) == hash = HashPassword(password)

\* the zero user.User
NoUser == [ID |-> 0, Username |-> "", Email |-> "", Password |-> sEmpty, Status |-> 0]

\* what the users collection may hold when the service starts: nothing, or
\* an account that has been disabled
InitialStores ==
    { <<>>,
      <<[ID |-> 1, Username |-> "ann", Email |-> "ann@x",
         Password |-> HashPassword(<<112>>), Status |-> 0]>> }

RegisterRequests == [Username : Usernames, Email : Emails, Password : Passwords]

\* the passwords a client may submit: any password, or a stored digest
LoginRequests ==
    [Username : Usernames, Email : {""},
     Password : Passwords \cup { HashPassword(p) : p \in Passwords }]

NoRequest == [Username |-> "", Email |-> "", Password |-> sEmpty]

NoResult == [err |-> "", user |-> NoUser, token |-> sEmpty]

\* collection.FindOne(ctx, bson.M{"username": username}): the first
\* matching document, or mongo.ErrNoDocuments
FindByUsername(store, username) ==
    LET I == { i \in 1 .. Len(store) : store[i].Username = username }
    IN  IF I = {} THEN [found |-> FALSE, user |-> NoUser]
        ELSE [found |-> TRUE, user |-> store[CHOOSE i \in I : \A j \in I : i <= j]]

\* collection.FindOne(ctx, bson.M{"email": email})
FindByEmail(store, email) ==
    LET I == { i \in 1 .. Len(store) : store[i].Email = email }
    IN  IF I = {} THEN [found |-> FALSE, user |-> NoUser]
        ELSE [found |-> TRUE, user |-> store[CHOOSE i \in I : \A j \in I : i <= j]]

\* generateUserID(): uint(time.Now().UnixNano() / 1000000)
generateUserID(ms) == ms

\* InsertOne refuses a document only through the unique indexes on username
\* and email that setupUserCollection creates
InsertRefused(store, u, indexes) ==
    /\ indexes
    /\ \E i \in 1 .. Len(store) :
          store[i].Username = u.Username \/ store[i].Email = u.Email

\* the user.User that Register builds and Create completes
NewUser(req, ms) ==
    [ID |-> generateUserID(ms), Username |-> req.Username, Email |-> req.Email,
     Password |-> HashPassword(req.Password), Status |-> 1]

\* Login (user_service.go 75-118): what it returns for req over the store
Login(store, req, t) ==
    LET r == FindByUsername(store, req.Username)
        u == r.user
        hashMatch == CheckPasswordHash(req.Password, u.Password)
        passwordMatch == hashMatch \/ (~hashMatch /\ u.Password = req.Password)
    IN  IF ~r.found THEN [NoResult EXCEPT !.err = "BadCredentials"]
        ELSE IF u.Status # 1 THEN [NoResult EXCEPT !.err = "Disabled"]
        ELSE IF ~passwordMatch THEN [NoResult EXCEPT !.err = "BadCredentials"]
        ELSE [err |-> "", user |-> u,
              token |-> GenerateToken(u.ID, CfgJWTSecret, CfgJWTExpire, t)]

UsIdle ==
    /\ usPc = <<>> /\ usOp = <<>> /\ usReq = <<>> /\ usOut = <<>>
    /\ usStore = <<>> /\ usIndexes = FALSE /\ usMs = 0 /\ usCalls = 0

\* main has built the repository manager; MigrateDB is not called, the
\* indexes are there only if the database got them before
UsInit ==
    /\ usPc = [t \in UsTasks |-> "idle"]
    /\ usOp = [t \in UsTasks |-> "none"]
    /\ usReq = [t \in UsTasks |-> NoRequest]
    /\ usOut = [t \in UsTasks |-> NoResult]
    /\ usStore \in InitialStores
    /\ usIndexes \in BOOLEAN
    /\ usMs = 1 /\ usCalls = 0

\* a request reaches UserServiceImpl.Register
UsRegister(t) ==
    /\ usPc[t] \in {"idle", "done"}
    /\ usCalls < MaxUserCalls
    /\ \E req \in RegisterRequests : usReq' = [usReq EXCEPT ![t] = req]
    /\ usOp' = [usOp EXCEPT ![t] = "Register"]
    /\ usOut' = [usOut EXCEPT ![t] = NoResult]
    /\ usPc' = [usPc EXCEPT ![t] = "FindByUsername"]
    /\ usCalls' = usCalls + 1
    /\ UNCHANGED <<now, usStore, usIndexes, usMs>>
    /\ UNCHANGED <<sgVars, frVars, ppVars, rpVars, tkVars, arVars, lgVars>>

\* user_service.go 42-44
UsFindByUsername(t) ==
    /\ usPc[t] = "FindByUsername"
    /\ IF FindByUsername(usStore, usReq[t].Username).found
       THEN /\ usOut' = [usOut EXCEPT ![t] = [NoResult EXCEPT !.err = "UsernameInUse"]]
            /\ usPc' = [usPc EXCEPT ![t] = "done"]
       ELSE /\ usPc' = [usPc EXCEPT ![t] = "FindByEmail"]
            /\ UNCHANGED usOut
    /\ UNCHANGED <<now, usOp, usReq, usStore, usIndexes, usMs, usCalls>>
    /\ UNCHANGED <<sgVars, frVars, ppVars, rpVars, tkVars, arVars, lgVars>>

\* user_service.go 47-49
UsFindByEmail(t) ==
    /\ usPc[t] = "FindByEmail"
    /\ IF FindByEmail(usStore, usReq[t].Email).found
       THEN /\ usOut' = [usOut EXCEPT ![t] = [NoResult EXCEPT !.err = "EmailInUse"]]
            /\ usPc' = [usPc EXCEPT ![t] = "done"]
       ELSE /\ usPc' = [usPc EXCEPT ![t] = "Create"]
            /\ UNCHANGED usOut
    /\ UNCHANGED <<now, usOp, usReq, usStore, usIndexes, usMs, usCalls>>
    /\ UNCHANGED <<sgVars, frVars, ppVars, rpVars, tkVars, arVars, lgVars>>

\* user_service.go 52-71 with MongoUserRepository.Create: HashPassword, the
\* new user with Status 1, an ID from the clock, InsertOne
UsCreate(t) ==
    /\ usPc[t] = "Create"
    /\ LET u == NewUser(usReq[t], usMs)
       IN  IF InsertRefused(usStore, u, usIndexes)
           THEN /\ usOut' = [usOut EXCEPT ![t] = [NoResult EXCEPT !.err = "CreateFailed"]]
                /\ UNCHANGED usStore
           ELSE /\ usStore' = Append(usStore, u)
                /\ usOut' = [usOut EXCEPT ![t] = [NoResult EXCEPT !.user = u]]
    /\ usPc' = [usPc EXCEPT ![t] = "done"]
    /\ UNCHANGED <<now, usOp, usReq, usIndexes, usMs, usCalls>>
    /\ UNCHANGED <<sgVars, frVars, ppVars, rpVars, tkVars, arVars, lgVars>>

\* a request reaches UserServiceImpl.Login (user_service.go 75-118)
UsLogin(t) ==
    /\ usPc[t] \in {"idle", "done"}
    /\ usCalls < MaxUserCalls
    /\ \E req \in LoginRequests :
          /\ usReq' = [usReq EXCEPT ![t] = req]
          /\ usOut' = [usOut EXCEPT ![t] = Login(usStore, req, now * TicksPerSecond)]
    /\ usOp' = [usOp EXCEPT ![t] = "Login"]
    /\ usPc' = [usPc EXCEPT ![t] = "done"]
    /\ usCalls' = usCalls + 1
    /\ UNCHANGED <<now, usStore, usIndexes, usMs>>
    /\ UNCHANGED <<sgVars, frVars, ppVars, rpVars, tkVars, arVars, lgVars>>

\* a millisecond passes
UsTick ==
    /\ usMs <= MaxMs
    /\ usMs' = usMs + 1
    /\ UNCHANGED <<now, usPc, usOp, usReq, usOut, usStore, usIndexes, usCalls>>
    /\ UNCHANGED <<sgVars, frVars, ppVars, rpVars, tkVars, arVars, lgVars>>

UsNext ==
    \/ \E t \in UsTasks : UsRegister(t)
    \/ \E t \in UsTasks : UsFindByUsername(t)
    \/ \E t \in UsTasks : UsFindByEmail(t)
    \/ \E t \in UsTasks : UsCreate(t)
    \/ \E t \in UsTasks : UsLogin(t)
    \/ UsTick

----------------------------------------------------------------------------
(* Specifications *)

vars == <<now, sgVars, frVars, ppVars, rpVars, tkVars, arVars, lgVars, usVars>>

\* a request served by the engine
Init ==
    /\ now \in 0 .. MaxNow /\ PpInit
    /\ SgIdle /\ FrIdle /\ RpIdle /\ TkIdle /\ ArIdle /\ LgIdle /\ UsIdle
Next == PpNext
Spec == Init /\ [][Next]_vars

\* a client signs a parameter map, the middleware verifies it
InitSigner ==
    /\ now \in (MaxNow - 1) .. MaxNow /\ SgInit
    /\ FrIdle /\ PpIdle /\ RpIdle /\ TkIdle /\ ArIdle /\ LgIdle /\ UsIdle
NextSigner == SgNext
SpecSigner == InitSigner /\ [][NextSigner]_vars

\* the replay guard over all timestamps, clocks and windows
InitFresh ==
    /\ now \in 0 .. MaxNow /\ FrInit
    /\ SgIdle /\ PpIdle /\ RpIdle /\ TkIdle /\ ArIdle /\ LgIdle /\ UsIdle
NextFresh == FrNext
SpecFresh == InitFresh /\ [][NextFresh]_vars

\* one signed request submitted repeatedly
InitReplay ==
    /\ now \in 0 .. MaxNow /\ RpInit
    /\ SgIdle /\ FrIdle /\ PpIdle /\ TkIdle /\ ArIdle /\ LgIdle /\ UsIdle
SpecReplay == InitReplay /\ [][RpNext]_vars

\* a session token issued and parsed
InitToken ==
    /\ now = 0 /\ TkInit
    /\ SgIdle /\ FrIdle /\ PpIdle /\ RpIdle /\ ArIdle /\ LgIdle /\ UsIdle
SpecToken == InitToken /\ [][TkNext]_vars

\* the request logger under concurrent callers and the rotation goroutine
InitAudit ==
    /\ now = 0 /\ ArInit
    /\ SgIdle /\ FrIdle /\ PpIdle /\ RpIdle /\ TkIdle /\ LgIdle /\ UsIdle
SpecAudit == InitAudit /\ [][ArNext]_vars

\* the application logger under concurrent goroutines
InitLog ==
    /\ now = 0 /\ LgInit
    /\ SgIdle /\ FrIdle /\ PpIdle /\ RpIdle /\ TkIdle /\ ArIdle /\ UsIdle
SpecLog == InitLog /\ [][LgNext]_vars

\* the user service under concurrent requests
InitUsers ==
    /\ now \in {0, MaxNow} /\ UsInit
    /\ SgIdle /\ FrIdle /\ PpIdle /\ RpIdle /\ TkIdle /\ ArIdle /\ LgIdle
SpecUsers == InitUsers /\ [][UsNext]_vars

----------------------------------------------------------------------------
(* Properties of the request pipeline (Spec) *)

\* the rejections the Signature middleware can write
SignatureRejections == {"BadParams", "InvalidAppKey", "Expired", "BadSignature"}

\* the request's `sign` is not the digest of its own parameters
SignMismatch ==
    \A iter \in IterOrders(DOMAIN AllParams(rq.query, rq.form)) :
        ~SignMatches(rq.query, rq.form, iter, CfgAppSecret)

\* the request's timestamp binds and is within the freshness window
TimestampFresh ==
    /\ sTimestamp \in DOMAIN rq.query
    /\ ParseInt(rq.query[sTimestamp][1]).ok
    /\ ~Expired(now, ParseInt(rq.query[sTimestamp][1]).val, CfgExpire)

\* C1: where the Signature middleware is installed, a GET request that
\* carries a `sign` which differs from the digest recomputed over its
\* parameters (and no signature header) never reaches the business handler
\* and ends as a 400 rejection, the signature-verification failure when its
\* app_key and timestamp are in order.
C1_BadSignRejected ==
    ( /\ ppChain = "SetupMiddlewares"
      /\ rq.method = "GET" /\ rq.signature = sEmpty
      /\ sSign \in DOMAIN rq.query
      /\ SignMismatch ) =>
        /\ ~ppHandled
        /\ ppPc = "Done" =>
              /\ ppStatus = 400
              /\ (QueryGet(rq.query, sAppKey) = CfgAppKey /\ TimestampFresh)
                     => ppMessage = "BadSignature"

\* C2: on the authenticated group the handler runs only for requests whose
\* Authorization header is `Bearer <token>` with a token ParseToken accepts;
\* every other request that gets as far as this gate ends as a 401 without
\* reaching the handler.
C2_HandlerNeedsValidToken ==
    rq.route = "authorized" =>
        /\ ppHandled => JWTAuthChecks(rq.authorization, now).out = "next"
        /\ ( /\ ppPc = "Done"
             /\ JWTAuthChecks(rq.authorization, now).out # "next"
             /\ ppMessage \notin SignatureRejections )
               => ppStatus = 401

\* C3: a GET request with a non-empty `signature` header whose value is not
\* the digest of its parameters never reaches the handler.
C3_HeaderSignatureChecked ==
    ( /\ ppChain = "SetupMiddlewares"
      /\ rq.method = "GET"
      /\ rq.signature # sEmpty
      /\ \A iter \in IterOrders(DOMAIN AllParams(rq.query, rq.form)) :
            rq.signature # CalculatedSign(rq.query, rq.form, iter, CfgAppSecret) )
    => ~ppHandled

\* C10: a GET request (signed in the query, no signature header) with a
\* wrong app_key ends as the invalid-appKey rejection whatever its timestamp,
\* a request ends as expired only if its app_key matched, and in both cases
\* the handler is not invoked.
C10_AppKeyBeforeFreshness ==
    ( /\ ppChain = "SetupMiddlewares" /\ ppPc = "Done"
      /\ rq.method = "GET" /\ rq.signature = sEmpty
      /\ ParseInt(rq.query[sTimestamp][1]).ok ) =>
        /\ QueryGet(rq.query, sAppKey) # CfgAppKey
              => (ppMessage = "InvalidAppKey" /\ ~ppHandled)
        /\ ppMessage = "Expired"
              => (QueryGet(rq.query, sAppKey) = CfgAppKey /\ ~ppHandled)

----------------------------------------------------------------------------
(* Properties of the canonical signer (SpecSigner) *)

SgSignedPhases == {"signed", "sent", "verified"}

\* C4: verifying a mapping against the signature that GenerateSignature
\* produced for it succeeds: an untouched signed request passes the
\* middleware's recomputation-and-compare.
C4_VerifyAcceptsOwnSignature ==
    (sgPhase = "verified" /\ ~sgTampered) => sgResult = "ok"

\* C5: the signature does not cover the `sign` entry: signing a mapping that
\* carries sign=x gives the digest of the mapping without its `sign` entry.
C5_SignEntryNotSigned ==
    sgPhase \in SgSignedPhases =>
        \A iter \in IterOrders(DOMAIN sgSigned \ {sSign}) :
            sgDigest = GenerateSignature(MapDel(sgSigned, sSign), iter, sgSecret)

C7_OrderIndependent ==
    /\ sgPhase \in SgSignedPhases =>
          \A iter \in IterOrders(DOMAIN sgSigned) :
              GenerateSignature(sgSigned, iter, sgSecret) = sgDigest
    /\ sgPhase = "verified" =>
          \A iter \in IterOrders(DOMAIN AllParams(sgQuery, sgForm)) :
              SignMatches(sgQuery, sgForm, iter, sgSecret) = (sgResult = "ok")

C7_Witness ==
    /\ sgPhase = "verified" /\ sgResult = "ok"
    /\ Cardinality(DOMAIN sgSigned) >= 2

----------------------------------------------------------------------------
(* Properties of the replay guard (SpecFresh) *)

\* C8: every stale request is rejected as expired: whenever now - timestamp
\* exceeds the window as mathematical integers, the freshness check fails.
C8_StaleRejected ==
    (frPhase = "checked" /\ now - frTimestamp > WindowSeconds(frExpire)) => frExpired

\* C9: for a window >= 0 the freshness check passes exactly when
\* now - timestamp <= window, future timestamps included.
C9_PassesIffWithinWindow ==
    (frPhase = "checked" /\ WindowSeconds(frExpire) >= 0) =>
        (~frExpired <=> now - frTimestamp <= WindowSeconds(frExpire))

----------------------------------------------------------------------------
(* Properties of repeated submission (SpecReplay) *)

\* C11: an identical, correctly signed request is accepted at every
\* submission made while now - timestamp <= window, however many times it
\* was verified before: by the checks of signature.go 37-120 and by the
\* middleware as written.
C11_ResubmissionAccepted ==
    (rpPhase = "verified" /\ now - rpTs <= WindowSeconds(CfgExpire)) =>
        (rpOut = "next" /\ rpMw = "next")

C11_Witness ==
    /\ rpPhase = "verified" /\ rpCount = MaxResubmits + 1
    /\ now - rpTs = WindowSeconds(CfgExpire)
    /\ rpOut = "next"

----------------------------------------------------------------------------
(* Properties of session tokens (SpecToken) *)

\* the ExpiresAt claim of the token issued
TkExpiresAt == NewNumericDate(tkIssuedAt + tkExpire)

\* the token reaches ParseToken as issued and under the issuing secret
TkIntact == ~tkAltered /\ tkParseSecret = tkSecret

\* C12: ParseToken accepts a token only if its tag is intact under the
\* secret and now < expiresAt; an intact token fails as expired at every
\* instant >= expiresAt; a token with an altered tag, or signed with another
\* secret, fails on its signature whether expired or not.
C12_AcceptedOnlyIntactAndUnexpired ==
    tkPhase = "parsed" =>
        /\ tkResult.err = "" => (TkIntact /\ tkNow < TkExpiresAt * TicksPerSecond)
        /\ (TkIntact /\ tkNow >= TkExpiresAt * TicksPerSecond) => tkResult.err = "expired"
        /\ ~TkIntact => tkResult.err = "signature"

C12_Witness ==
    /\ tkPhase = "parsed" /\ TkIntact
    /\ tkNow = TkExpiresAt * TicksPerSecond
    /\ tkResult.err = "expired"

\* parsed within the second of issuance
TkImmediately == tkNow \div TicksPerSecond = tkIssuedAt \div TicksPerSecond

\* C13: for every subject ID, secret and ttl, parsing a token right after
\* issuing it, under the same secret, succeeds with UserID = id.
C13_IssueThenParse ==
    (tkPhase = "parsed" /\ TkIntact /\ TkImmediately) =>
        (tkResult.err = "" /\ tkResult.UserID = tkUserID)

\* C13 as amended: the same for every ttl of at least one second.
C13_IssueThenParseTtl ==
    (tkPhase = "parsed" /\ TkIntact /\ TkImmediately /\ tkExpire >= TicksPerSecond) =>
        (tkResult.err = "" /\ tkResult.UserID = tkUserID)

C13_Witness ==
    /\ tkPhase = "parsed" /\ TkIntact /\ TkImmediately
    /\ tkExpire = TicksPerSecond /\ tkNow > tkIssuedAt
    /\ tkUserID = 2 /\ tkResult.err = "" /\ tkResult.UserID = 2

----------------------------------------------------------------------------
(* Properties of the audit step and of panics (Spec) *)

\* C14: every request ends with exactly one audit record handed to
\* utils.LogRequest, whether the handler answered, a gate rejected the
\* request, or the handler panicked and ErrorHandler recovered (500); none
\* is handed over before the end.
C14_OneAuditPerRequest ==
    ppAudits = IF ppPc = "Done" THEN 1 ELSE 0

C14_Witness ==
    /\ ppPc = "Done" /\ ppHandled /\ ppRecovered # NoPanic
    /\ ppStatus = 500 /\ ppAudits = 1

\* C15: outside debug mode the response to a handler panic carries neither
\* the panic value nor a stack-trace line.
C15_PanicNotReflected ==
    (ppPc = "Done" /\ ppRecovered # NoPanic /\ ppMode # "debug") =>
        (ppBody.Error # Sprint(ppRecovered) /\ ppBody.Details = <<>>)

\* C19: the task serving a request performs no log write itself: every
\* application-log and audit write is left to another task.
C19_NoLogIOInRequestTask ==
    ppSyncIO = <<>>

----------------------------------------------------------------------------
(* Properties of the request logger (SpecAudit) *)

\* the lines appended for caller p
ArLinesOf(p) == { i \in 1 .. Len(arLines) : arLines[i][1] = p }

\* caller p waits for a mutex that is never released: it holds the mutex
\* and waits for it again, or waits for it behind such a caller
ArStuck(p) ==
    \/ arPc[p] = "Relock"
    \/ arPc[p] = "Lock" /\ arMutex \in Callers /\ arPc[arMutex] = "Relock"

\* C16: with daily rotation and a healthy file system, under every
\* interleaving of LogRequest calls and the rotation goroutine each record
\* that was serialized is appended exactly once: a call that returned has
\* left one line, no call leaves two, and no call is blocked for good with
\* its record unwritten.
C16_NoRecordLostOrDuplicated ==
    (arFs = "ok" /\ arConfig.RotateDaily) =>
        \A p \in Callers :
            /\ Cardinality(ArLinesOf(p)) <= 1
            /\ arPc[p] = "Done" => Cardinality(ArLinesOf(p)) = 1
            /\ ~ArStuck(p)

\* C17: with daily rotation every record lands in the file of the day it
\* was emitted on (reqLog.Time), before or after a midnight, and a call that
\* returned has left exactly one line.
C17_RecordInFileOfItsDay ==
    (arFs = "ok" /\ arConfig.RotateDaily) =>
        /\ \A i \in 1 .. Len(arLines) :
              arLines[i][2] = RequestFile(arConfig, arEmitDay[arLines[i][1]])
        /\ \A p \in Callers : arPc[p] = "Done" => Cardinality(ArLinesOf(p)) = 1

----------------------------------------------------------------------------
(* Properties of the application logger (SpecLog) *)

\* C18: with rotateDaily a record written on day D is in the file named
\* after D (<D>.log or <D>_error.log), also when the logger was initialized
\* on an earlier day.
C18_RecordInFileOfItsDay ==
    \A i \in 1 .. Len(lgLines) :
        lgLogger.config.RotateDaily =>
            lgLines[i].file = LogFile(lgLogger.config, lgLines[i].day,
                                      HighPriority(lgLines[i].level))

\* C20: under every interleaving the init body runs at most once; the
\* logger is, for good, the one that run built from its configuration; a run
\* started by a log call uses the default configuration; no record is
\* written without that run.
C20_InitializedOnce ==
    /\ Len(lgInits) <= 1
    /\ lgLogger # NilLogger =>
          /\ Len(lgInits) = 1
          /\ lgLogger = NewLogger(lgInits[1].config, lgInits[1].day)
    /\ \A i \in 1 .. Len(lgInits) :
          lgInits[i].op \in LogOps => lgInits[i].config = defaultLogConfig
    /\ lgLines # <<>> => lgLogger # NilLogger

C20_Witness ==
    /\ Len(lgInits) = 1 /\ lgInits[1].op \in LogOps
    /\ lgLogger = NewLogger(defaultLogConfig, lgInits[1].day)
    /\ \E t \in LgTasks :
          /\ lgPc[t] = "idle" /\ lgOp[t].op = "InitLoggerWithConfig"
          /\ lgOp[t].config # defaultLogConfig
    /\ Len(lgLines) >= 2

----------------------------------------------------------------------------
(* Failures, blocking and exclusion in the request logger (SpecAudit) *)

\* C21: no failure of the request logger crashes its caller: when the audit
\* directory cannot be created, a record fails to serialize or a write
\* fails, LogRequest returns with the record dropped, and so does every
\* later call; no LogRequest goroutine dies.
C21_LoggingFailureNeverCrashes ==
    /\ ~arCrashed
    /\ \A p \in Callers : arPc[p] # "Crashed"

\* C24: no LogRequest call is left waiting for good on requestLogger.mutex:
\* in particular none holds the mutex while waiting to take it again.
C24_NoCallerBlockedOnOwnMutex ==
    \A p \in Callers : arPc[p] # "Relock"

\* the goroutines between a Lock of requestLogger.mutex and its Unlock
ArInCritical ==
    { p \in Callers : arPc[p] \in {"Locked", "Relock"} }
        \cup (IF arRot = "swap" THEN {RotId} ELSE {})

\* C26: at most one goroutine at a time is between Lock and Unlock of the
\* recorder's mutex, where every Write and every writer swap happens, and
\* that goroutine is the holder of the mutex.
C26_WriterAccessSerialized ==
    /\ Cardinality(ArInCritical) <= 1
    /\ \A g \in ArInCritical : arMutex = g

C26_Witness ==
    /\ arWriter # NoWriter
    /\ arDay >= 1 /\ arRot = "updateWriter"
    /\ \E p \in Callers : \E q \in Callers \ {p} :
          arPc[p] = "Locked" /\ arPc[q] = "Lock" /\ arMutex = p

\* C30: for every configuration, an empty LogDir included, the directory
\* the init body created and reported is the directory of the active audit
\* file.
C30_WriterInCreatedDir ==
    arWriter # NoWriter => arWriter.dir = arDir

----------------------------------------------------------------------------
(* Failure of initialization and the two file sinks (SpecLog) *)

\* C22: when the logger cannot create its directory the process halts, and
\* no log call goes on with the logger still nil, whether the init body was
\* run by an explicit InitLogger / InitLoggerWithConfig call or by the first
\* log call of a goroutine serving a request.
C22_InitFailureIsFatal ==
    /\ (\E i \in 1 .. Len(lgInits) : ~lgInits[i].ok) => lgHalted
    /\ \A t \in LgTasks : lgPc[t] = "log" => lgLogger # NilLogger

\* the lines of record n in the log files
LgLinesOf(n) == { i \in 1 .. Len(lgLines) : lgLines[i].rec = n }

\* C23: every record handed to the logger is written to exactly one of the
\* two files: to the error file and not the info file when its severity is
\* error or above, to the info file and not the error file when it is below.
C23_ExactlyOneFileSink ==
    /\ lgLogger # NilLogger => lgLogger.info # lgLogger.error
    /\ \A n \in 1 .. lgRecords :
          /\ Cardinality(LgLinesOf(n)) = 1
          /\ \A i \in LgLinesOf(n) :
                lgLines[i].file = IF LevelOf[lgLines[i].level] >= ErrorLevel
                                  THEN lgLogger.error ELSE lgLogger.info

C23_Witness ==
    /\ \E i \in 1 .. Len(lgLines) :
          lgLines[i].level = "Warn" /\ lgLines[i].file = lgLogger.info
    /\ \E i \in 1 .. Len(lgLines) :
          lgLines[i].level = "Error" /\ lgLines[i].file = lgLogger.error
    /\ ~lgLogger.config.RotateDaily

----------------------------------------------------------------------------
(* The two computations of the digest, and collisions (SpecSigner) *)

RivalMaps ==
    UNION { [K -> ParamValues \cup {<<50>>}] :
              K \in {K \in SUBSET ParamKeys : Cardinality(K) <= MaxParams} }

\* C28: a mapping that differs from the signed one, in its key set or in
\* some value, never has the same canonical string under the same secret,
\* also when keys or values contain `&` or `=`.
C28_DistinctMapsDistinctStrings ==
    sgPhase \in SgSignedPhases =>
        \A q \in RivalMaps :
            q # sgSigned =>
                \A i1 \in IterOrders(DOMAIN q) : \A i2 \in IterOrders(DOMAIN sgSigned) :
                    SignStr(q, i1, sgSecret) # SignStr(sgSigned, i2, sgSecret)

----------------------------------------------------------------------------
(* Properties of the user service (SpecUsers) *)

\* C27: a login returns a session token only for an active user whose
\* stored digest the password verifier accepts for the supplied password;
\* no other comparison of the supplied password with the stored value lets
\* a login succeed.
C27_LoginNeedsVerifiedPassword ==
    \A t \in UsTasks :
        (usPc[t] = "done" /\ usOp[t] = "Login" /\ usOut[t].token # sEmpty) =>
            /\ usOut[t].user.Status = 1
            /\ CheckPasswordHash(usReq[t].Password, usOut[t].user.Password)

\* C29: after any interleaving of Register calls no two stored users share
\* a username or an email, and a Register call that failed found the
\* username or the email in use and stored nothing.
C29_UniqueUsernameAndEmail ==
    /\ \A i \in 1 .. Len(usStore) : \A j \in 1 .. Len(usStore) :
          i # j => /\ usStore[i].Username # usStore[j].Username
                   /\ usStore[i].Email # usStore[j].Email
    /\ \A t \in UsTasks :
          (usPc[t] = "done" /\ usOp[t] = "Register" /\ usOut[t].err # "") =>
              usOut[t].err \in {"UsernameInUse", "EmailInUse"}

====
